---- MODULE Spec2Model ----
(***************************************************************************)
(* A model of p2p0mq: the peer record and its state machine (peer.py),     *)
(* the message and its wire codec (message.py), the connector and          *)
(* heart-beat concerns (concerns/connector.py, concerns/heart_beat.py),    *)
(* the concerns manager's dispatch (concerns/manager.py), the peer store   *)
(* (peer_store.py) and the local peer's loop (app/local_peer.py).          *)
(*                                                                         *)
(* The sender (app/client.py), the receiver (app/server.py), the message   *)
(* queues and constants.py are not part of the sources at hand: they are   *)
(* modelled from the specification and from their unit tests.              *)
(***************************************************************************)
EXTENDS Integers, Sequences, FiniteSets, TLC

(***************************************************************************)
(* Values                                                                  *)
(***************************************************************************)
\* Python's None.
NULL == "None"
\* The empty byte string b''.
EMPTY == ""
\* None where a number is expected (a timer, a kind, a message id).
NoTime == 0 - 1
\* None where a message is expected.
NoMessage == [none |-> TRUE]

\* The node identifiers (uuids) of the mesh.
Nodes == {"n1", "n2", "n3"}

\* peer.py: the connection states.
INITIAL == 1
CONNECTING == 2
CONNECTED == 3
ROUTED == 4
UNREACHABLE == -1
NO_CONNECTION == -2

\* constants.py (defaults as the specification lists them).
HEART_BEAT_INTERVAL == 5
HEART_BEAT_SLOW_DOWN == 5
HEART_BEAT_MAX_INTERVAL == 60
UNRESPONSIVE_THRESHOLD == 15
NO_CONNECTION_THRESHOLD == 60
UNRESPONSIVE_RECONNECT_WAIT == 30
PROCESS_LIMIT_PER_LOOP == 100
DEFAULT_TIME_TO_LIVE == 60
SYNC_DB_INTERVAL == 30
MESSAGE_TYPE_REQUEST == 0
MESSAGE_TYPE_REPLY == 1
MESSAGE_TYPE_ROUTE == 2
SPEED_FAST == 1
SPEED_MEDIUM == 2
SPEED_SLOW == 3

Kinds == {MESSAGE_TYPE_REQUEST, MESSAGE_TYPE_REPLY, MESSAGE_TYPE_ROUTE}
Speeds == {SPEED_FAST, SPEED_MEDIUM, SPEED_SLOW}

\* The command ids of the library concerns, and one of an application concern.
CMD_HELLO == "hello"
CMD_HB == "hb"
CMD_APP == "app"
CMD_UNKNOWN == "nope"

(***************************************************************************)
(* Bounds of the model                                                     *)
(***************************************************************************)
\* Largest message id the codec inputs carry.
MaxCodecId == 2
\* Most messages one dequeue call returns.
MaxBatch == 2
\* Most frames and messages that wait for the receiver and the app worker
\* of a node when a remote peer sends it one more.
MaxInbound == 2
\* Most messages that wait for the sender of a node when the application
\* hands it one more.
MaxOutbound == 3
\* Most frames the remote peers send in a run.
MaxFrames == 2
\* Most calls the application makes into the library in a run.
MaxCalls == 2
\* Most calls the application makes in a run in which it sends.
MaxSendCalls == 3
\* Most steps of the clock between two passes of the app worker.
MaxLag == 1
\* Most steps the clock takes in a run of one node.
MaxTicks == 1
\* Most calls the application makes into the registry of concerns.
MaxRegistryCalls == 4

VARIABLES
    now,              \* time(): the wall clock, in seconds
    tick,             \* per node: app.tick, the clock as the app loop last read it
    next_message_id,  \* per node: message.py's module-level counter
    peers,            \* per node: PeerStore.peers, uuid -> Peer (or NoPeer)
    connection_queue, \* per node: sender.connection_queue, of {peer: message}
    out_queues,       \* per node: sender.fast_queue / medium_queue / slow_queue
    typed_queues,     \* per node: receiver.typed_queues, by message kind
    wire,             \* per node: the frames the transport has for its receiver
    app,              \* per node: where the app worker is in LocalPeer.execute
    snd,              \* per node: where the sender worker is in Sender.execute
    seen,             \* per node: what the last send_message call did
    env,              \* what the environment may still do: frames to send, calls to make
    codec,            \* the codec round trip under observation
    db,               \* per node: the sqlite database of PeerStore, and its sync schedule
    life,             \* per node: where LocalPeer is between create() and the end of terminate()
    registry,         \* per node: ConcernsManager.concerns and concerns_started, and the calls the concerns got
    links,            \* per node: the calls of socket.connect of the sender that returned, by peer
    routed,           \* per node: what the last process_routes call did with each message
    ask,              \* the ask-around calls under observation
    alloc             \* per node: where each thread is in get_next_message_id, and the ids returned

nodeVars == <<tick, peers, connection_queue, out_queues, typed_queues, wire, app, snd, seen>>

vars == <<now, next_message_id, nodeVars, env, codec, db, life, registry, links, routed, ask, alloc>>

(***************************************************************************)
(* message.py                                                              *)
(***************************************************************************)
\* umsgpack.packb / unpackb: an injective encoding and its inverse.
packb(v) == <<"msgpack", v>>

unpackb(b) == b[2]

\* get_next_message_id(): the counter after the call is the id returned.
get_next_message_id(counter) == counter + 1

\* Message.__init__: `kind` is the value of the `reply` argument once the
\* bool case is resolved; `message_id` 0 stands for every falsy id (None
\* and 0 alike take a fresh id); `t` is time() at construction; `counter`
\* is the module counter before the call. Yields the message and the
\* counter after.
MessageInit(source, to, previous_hop, next_hop, command, kind, handler, message_id, time_to_live, payload, t, counter) ==
    LET fresh == message_id = 0
        id == IF fresh THEN get_next_message_id(counter) ELSE message_id
    IN [msg |-> [source |-> source, to |-> to,
                 previous_hop |-> previous_hop, next_hop |-> next_hop,
                 command |-> command, handler |-> handler, kind |-> kind,
                 payload |-> payload, time_to_live |-> t + time_to_live,
                 message_id |-> id],
        counter |-> IF fresh THEN id ELSE counter]

\* The bool case of the `reply` argument of Message.__init__.
KindOfReply(reply) == IF reply THEN MESSAGE_TYPE_REPLY ELSE MESSAGE_TYPE_REQUEST

\* Message.encode, first half: the fields it fills in on the message itself.
EncodeFill(m, app_uuid) ==
    [m EXCEPT !.next_hop = IF m.next_hop = NULL THEN m.to ELSE m.next_hop,
              !.source = IF m.source = NULL THEN app_uuid ELSE m.source]

\* The tautological elision the TODO in Message.encode warns about.
EncodeToFieldTautology(s) == IF s.to # s.to THEN s.to ELSE EMPTY

\* Message.encode: the `to` part of the frame.
EncodeToField(s) == IF s.to # s.next_hop THEN s.to ELSE EMPTY

\* Message.encode: the 7-part frame.
encode(m, app_uuid) ==
    LET s == EncodeFill(m, app_uuid)
    IN << s.next_hop,
          IF s.source # app_uuid THEN s.source ELSE EMPTY,
          EncodeToField(s),
          <<s.kind>>,
          s.command,
          packb(s.message_id),
          packb(s.payload) >>

\* A decoder that takes a frame one part short for a message without
\* payload.
ParseShort(raw_data, app_uuid, t, counter) ==
    IF Len(raw_data) \notin {6, 7}
    THEN [msg |-> NoMessage, counter |-> counter]
    ELSE MessageInit(
            IF raw_data[2] # EMPTY THEN raw_data[2] ELSE raw_data[1],
            IF raw_data[3] # EMPTY THEN raw_data[3] ELSE app_uuid,
            raw_data[1], NULL, raw_data[5], raw_data[4][1], NULL,
            unpackb(raw_data[6]), DEFAULT_TIME_TO_LIVE, <<>>,
            t, counter)

\* A parse that counts the deadline from the start of the clock.
ParseStaleDeadline(raw_data, app_uuid, t, counter) ==
    IF Len(raw_data) # 7
    THEN [msg |-> NoMessage, counter |-> counter]
    ELSE MessageInit(
            IF raw_data[2] # EMPTY THEN raw_data[2] ELSE raw_data[1],
            IF raw_data[3] # EMPTY THEN raw_data[3] ELSE app_uuid,
            raw_data[1], NULL, raw_data[5], raw_data[4][1], NULL,
            unpackb(raw_data[6]), DEFAULT_TIME_TO_LIVE, unpackb(raw_data[7]),
            0, counter)

\* Message.parse: None for a frame that has not 7 parts, else the message
\* (and the counter, which Message.__init__ moves when the id is falsy).
parse(raw_data, app_uuid, t, counter) ==
    IF Len(raw_data) # 7
    THEN [msg |-> NoMessage, counter |-> counter]
    ELSE MessageInit(
            IF raw_data[2] # EMPTY THEN raw_data[2] ELSE raw_data[1],
            IF raw_data[3] # EMPTY THEN raw_data[3] ELSE app_uuid,
            raw_data[1], NULL, raw_data[5], raw_data[4][1], NULL,
            unpackb(raw_data[6]), DEFAULT_TIME_TO_LIVE, unpackb(raw_data[7]),
            t, counter)

\* The transport (a router-style socket pair): the first part of a frame a
\* node sends names the node it is delivered to, and arrives replaced by
\* the identity of the sending node.
TransportTarget(frame) == frame[1]

TransportDeliver(frame, sender_uuid) == <<sender_uuid>> \o Tail(frame)

\* Message.create_reply with the arguments the concerns pass: the reply
\* goes back along the path the request came, keeps its command, handler
\* and id, and gets a deadline of its own.
create_reply(m, payload, t, counter) ==
    MessageInit(m.to, m.source, m.next_hop, m.previous_hop, m.command,
                KindOfReply(TRUE), m.handler, m.message_id,
                DEFAULT_TIME_TO_LIVE, payload, t, counter)

\* Message.valid_for_send (both branches of `verbose` decide alike).
valid_for_send(m, app_tick) ==
    /\ m.to # NULL
    /\ m.source # NULL
    /\ m.command # NULL
    /\ m.handler # NULL
    /\ m.kind # NoTime
    /\ m.message_id # NoTime
    /\ m.time_to_live # NoTime
    /\ ~(m.time_to_live < app_tick)

(***************************************************************************)
(* peer.py                                                                 *)
(***************************************************************************)
\* No entry under a uuid in the `peers` dictionary.
NoPeer == [none |-> TRUE]

\* Peer.__init__ (first_connect is the `_first_connect` attribute the
\* sender sets on the object; FALSE while the attribute is absent).
Peer(uuid, host, port, db_id) ==
    [uuid |-> uuid, host |-> host, port |-> port, db_id |-> db_id,
     conn_state |-> INITIAL, via |-> NULL,
     next_heart_beat_time |-> NoTime, last_heart_beat_time |-> NoTime,
     slow_heart_beat_down |-> 0,
     next_ask_around_time |-> NoTime, last_ask_around_time |-> NoTime,
     first_connect |-> FALSE]

\* Peer.needs_reconnect
needs_reconnect(peer) == peer.conn_state \in {INITIAL, NO_CONNECTION, UNREACHABLE}

\* A does_heart_beat that gives up on a peer once it is UNREACHABLE.
DoesHeartBeatWhileReachable(peer) == peer.conn_state \in {CONNECTED, ROUTED}

\* Peer.does_heart_beat
does_heart_beat(peer) == peer.conn_state \in {CONNECTED, ROUTED, UNREACHABLE}

Min(a, b) == IF a < b THEN a ELSE b

\* Peer.reset_heart_beat
reset_heart_beat(peer, app_tick) ==
    [peer EXCEPT !.next_heart_beat_time = app_tick + HEART_BEAT_INTERVAL,
                 !.slow_heart_beat_down = 0,
                 !.last_heart_beat_time = app_tick]

\* A schedule_heart_beat whose back-off grows without a cap.
ScheduleUncapped(peer, app_tick) ==
    [peer EXCEPT !.next_heart_beat_time =
                     app_tick + HEART_BEAT_INTERVAL + peer.slow_heart_beat_down,
                 !.slow_heart_beat_down =
                     peer.slow_heart_beat_down + HEART_BEAT_SLOW_DOWN]

\* Peer.schedule_heart_beat
schedule_heart_beat(peer, app_tick) ==
    [peer EXCEPT !.next_heart_beat_time =
                     app_tick + HEART_BEAT_INTERVAL + peer.slow_heart_beat_down,
                 !.slow_heart_beat_down =
                     Min(peer.slow_heart_beat_down + HEART_BEAT_SLOW_DOWN,
                         HEART_BEAT_MAX_INTERVAL)]

\* A become_connected that refreshes the timers and leaves the state and
\* the relay as they are.
BecomeRefreshed(peer, message, app_tick) == reset_heart_beat(peer, app_tick)

\* A become_connected that leaves the relay of the peer as it is when the
\* message came directly.
BecomeConnectedKeepsVia(peer, message, app_tick) ==
    reset_heart_beat(
        IF message.source = message.previous_hop
        THEN [peer EXCEPT !.conn_state = CONNECTED]
        ELSE [peer EXCEPT !.conn_state = ROUTED, !.via = message.previous_hop],
        app_tick)

\* Peer.become_connected (its assertion, message.source = self.uuid, holds
\* at every call: the peer is looked up under message.source).
become_connected(peer, message, app_tick) ==
    reset_heart_beat(
        IF message.source = message.previous_hop
        THEN [peer EXCEPT !.conn_state = CONNECTED, !.via = NULL]
        ELSE [peer EXCEPT !.conn_state = ROUTED, !.via = message.previous_hop],
        app_tick)

\* The order in which `for peer in self.app.peers.values()` visits peers.
PeerOrder == <<"n1", "n2", "n3">>

(***************************************************************************)
(* The peer database: peer_store.py                                        *)
(***************************************************************************)
\* No row under a uuid in the peers table.
NoRow == [none |-> TRUE]

\* PeerStore.__init__ at time t, over a database file that holds nothing:
\* the first sync is due at once. `syncs` counts the calls of
\* sync_database.
FreshDb(t) ==
    [table |-> FALSE, rows |-> [p \in Nodes |-> NoRow],
     next_peer_db_sync_time |-> t - SYNC_DB_INTERVAL, syncs |-> 0]

\* The same after PeerStore.start_db: the forced sync has created the
\* peers table.
StartedDb(t) == [FreshDb(t) EXCEPT !.table = TRUE]

\* The uuids a peers dictionary holds, and those the peers table holds.
InMemory(table) == {p \in Nodes : table[p] # NoPeer}
InStorage(rows) == {p \in Nodes : rows[p] # NoRow}

\* sync_database, "Save peers that are only present in the memory": the
\* loop over self.peers from the k-th peer on. Each INSERT gives the peer
\* the next row id; a peer that has a db_id and no row fails the
\* assertion.
RECURSIVE SaveMemoryOnly(_, _, _, _)
SaveMemoryOnly(mem, rows, known, k) ==
    IF k > Len(PeerOrder) THEN [peers |-> mem, rows |-> rows, exc |-> NULL]
    ELSE LET id == PeerOrder[k]
             rowid == Cardinality(InStorage(rows)) + 1
         IN IF mem[id] = NoPeer \/ id \in known
            THEN SaveMemoryOnly(mem, rows, known, k + 1)
            ELSE IF mem[id].db_id # NoTime
            THEN [peers |-> mem, rows |-> rows, exc |-> "AssertionError"]
            ELSE SaveMemoryOnly(
                    [mem EXCEPT ![id].db_id = rowid],
                    [rows EXCEPT ![id] = [peer_id |-> rowid, host |-> mem[id].host,
                                          port |-> mem[id].port]],
                    known, k + 1)

\* PeerStore.sync_database at time t: the peers dictionary and the
\* database it leaves, and the exception it ends with (an exception
\* leaves the connection without the commit).
sync_database(mem, store, t, force) ==
    IF store.next_peer_db_sync_time > t /\ ~force
    THEN [peers |-> mem, db |-> store, exc |-> NULL]
    ELSE IF ~store.table
    THEN [peers |-> mem, db |-> [store EXCEPT !.table = TRUE], exc |-> NULL]
    ELSE LET saved == SaveMemoryOnly(mem, store.rows, InStorage(store.rows), 1)
             loaded == [p \in Nodes |->
                           IF mem[p] = NoPeer /\ store.rows[p] # NoRow
                           THEN Peer(p, store.rows[p].host, store.rows[p].port,
                                     store.rows[p].peer_id)
                           ELSE saved.peers[p]]
         IN IF saved.exc # NULL
            THEN [peers |-> saved.peers, db |-> store, exc |-> saved.exc]
            ELSE [peers |-> loaded,
                  db |-> [store EXCEPT !.rows = saved.rows,
                                       !.next_peer_db_sync_time = t + SYNC_DB_INTERVAL],
                  exc |-> NULL]

(***************************************************************************)
(* The life of a node: LocalPeer.create and LocalPeer.terminate            *)
(***************************************************************************)
\* The two threads the app thread starts and joins.
Workers == {"receiver", "sender"}

\* LocalPeer.create: what it opens, in the order of its calls.
CreateSteps == <<"db", "cert_store", "auth", "concerns", "receiver", "sender">>

\* A terminate that shuts the handlers down while the workers still run.
TerminateEarly ==
    <<"stop_receiver", "stop_sender", "concerns", "join_receiver", "join_sender",
      "auth", "db">>

\* LocalPeer.terminate: its calls, in order. Each join is followed by the
\* assertion that the socket of the worker is None.
TerminateSteps ==
    <<"stop_receiver", "stop_sender", "join_receiver", "join_sender",
      "concerns", "auth", "db">>

\* LocalPeer.__init__: nothing is open, the two workers are built and not
\* started, and no socket exists.
NewLife ==
    [pc |-> "new", k |-> 0, opened |-> <<>>, closed |-> <<>>, joined |-> <<>>,
     stop |-> [w \in Workers |-> FALSE],
     worker |-> [w \in Workers |-> "built"],
     socket |-> [w \in Workers |-> NULL]]

\* The node after create(): the loop of the app thread runs, and so do
\* the loops of the two workers, each with its socket.
RunningLife ==
    [NewLife EXCEPT !.pc = "running", !.opened = CreateSteps,
                    !.worker = [w \in Workers |-> "top"],
                    !.socket = [w \in Workers |-> "socket"]]

(***************************************************************************)
(* The registry of concerns: concerns/manager.py                           *)
(***************************************************************************)
\* The concern objects of a run: the two that add_all_library_concerns
\* makes, two of the application under one command, and one of the
\* application under the command of the library's heart-beat.
LibraryConcerns == {"HeartBeatConcern", "ConnectorConcern"}
Handlers == LibraryConcerns \cup {"AppConcern", "OtherAppConcern", "OwnHeartBeat"}

\* concern.command_id
CommandOf(h) ==
    CASE h \in {"HeartBeatConcern", "OwnHeartBeat"} -> "hb"
      [] h = "ConnectorConcern" -> "hello"
      [] OTHER -> "app"

\* ConcernsManager.__init__: no concern, nothing started. `start` and
\* `terminate` count the calls of Concern.start and Concern.terminate an
\* object got; `exc` is the exception of the last call into the registry,
\* `call` that call and `calls` the number of calls made.
NewRegistry ==
    [concerns |-> {}, concerns_started |-> FALSE,
     start |-> [h \in Handlers |-> 0], terminate |-> [h \in Handlers |-> 0],
     exc |-> "None", call |-> <<>>, calls |-> 0]

\* The concern objects registered under the command of h.
Under(r, h) == {g \in r.concerns : CommandOf(g) = CommandOf(h)}

\* A registry that stores a concern without the assertion on its command.
AddUnchecked(r, h) ==
    [r EXCEPT !.concerns = (@ \ Under(r, h)) \cup {h},
              !.start[h] = IF r.concerns_started THEN @ + 1 ELSE @,
              !.exc = "None"]

\* ConcernsManager.add_concern
add_concern(r, h) ==
    IF Under(r, h) # {}
    THEN [r EXCEPT !.exc = "AssertionError"]
    ELSE [r EXCEPT !.concerns = (@ \ Under(r, h)) \cup {h},
                   !.start[h] = IF r.concerns_started THEN @ + 1 ELSE @,
                   !.exc = "None"]

\* ConcernsManager.add_all_library_concerns
add_all_library_concerns(r) ==
    add_concern(add_concern(r, "HeartBeatConcern"), "ConnectorConcern")

\* ConcernsManager.start_concerns
start_concerns(r) ==
    LET filled == IF r.concerns = {} THEN add_all_library_concerns(r) ELSE r
    IN [filled EXCEPT !.start = [h \in Handlers |-> IF h \in filled.concerns THEN @[h] + 1 ELSE @[h]],
                      !.concerns_started = TRUE,
                      !.exc = "None"]

\* ConcernsManager.terminate_concerns
terminate_concerns(r) ==
    [r EXCEPT !.terminate = [h \in Handlers |-> IF h \in r.concerns THEN @[h] + 1 ELSE @[h]],
              !.exc = "None"]

\* The registry of a node whose application added its concern and the two
\* of the library before create().
StartedRegistry ==
    start_concerns(add_concern(add_all_library_concerns(NewRegistry), "AppConcern"))

(***************************************************************************)
(* What a concern sees of its node while one of its methods runs: the peer *)
(* table, the sender's connection queue, the message id counter, app.tick  *)
(* and time(); `messages` collects what the method composes and `exc` is   *)
(* the exception that ended it (NULL when it returned).                    *)
(***************************************************************************)
\* The address the receiver of a node is bound to.
bind_address(n) == "127.0.0.1"

bind_port(n) == CASE n = "n1" -> 8401 [] n = "n2" -> 8402 [] OTHER -> 8403

\* A None timer compared or added to a number raises TypeError.
TimerIsNone(t) == t = NoTime

Raise(st, exc) == IF st.exc = NULL THEN [st EXCEPT !.exc = exc] ELSE st

(***************************************************************************)
(* concerns/connector.py                                                   *)
(***************************************************************************)
\* ConnectorConcern.connect_peer
connect_peer(st, id, first) ==
    LET peer == st.peers[id]
        made == MessageInit(st.uuid, id, NULL, id, CMD_HELLO, KindOfReply(FALSE),
                            CMD_HELLO, 0, DEFAULT_TIME_TO_LIVE,
                            [host |-> bind_address(st.uuid), port |-> bind_port(st.uuid)],
                            st.now, st.counter)
        timed == IF first
                 THEN [peer EXCEPT !.next_heart_beat_time = st.tick + UNRESPONSIVE_THRESHOLD,
                                   !.slow_heart_beat_down = 0]
                 ELSE schedule_heart_beat(peer, st.tick)
    IN IF peer.next_heart_beat_time # NoTime /\ first
       THEN st
       ELSE [st EXCEPT !.peers[id] = timed,
                       !.counter = made.counter,
                       !.connection_queue = Append(@, [peer |-> id, message |-> made.msg])]

\* A declare_no_connection that schedules the reconnect with no wait.
DeclareNoConnectionAtOnce(st, id) ==
    [st EXCEPT !.peers[id].conn_state = NO_CONNECTION,
               !.peers[id].last_heart_beat_time = st.tick,
               !.peers[id].next_heart_beat_time = st.tick]

\* ConnectorConcern.declare_no_connection
declare_no_connection(st, id) ==
    [st EXCEPT !.peers[id].conn_state = NO_CONNECTION,
               !.peers[id].last_heart_beat_time = st.tick,
               !.peers[id].next_heart_beat_time = st.tick + UNRESPONSIVE_RECONNECT_WAIT]

\* ConnectorConcern.reconnect_peer
reconnect_peer(st, id) ==
    IF TimerIsNone(st.peers[id].next_heart_beat_time)
    THEN Raise(st, "TypeError")
    ELSE IF st.peers[id].next_heart_beat_time < st.tick
         THEN connect_peer(st, id, FALSE)
         ELSE st

\* A connecting_peer that goes on waiting for the reply.
ConnectingPeerWaits(st, id) == st

\* ConnectorConcern.connecting_peer
connecting_peer(st, id) ==
    IF TimerIsNone(st.peers[id].next_heart_beat_time)
    THEN Raise(st, "TypeError")
    ELSE IF st.peers[id].next_heart_beat_time < st.tick
         THEN declare_no_connection(st, id)
         ELSE st

\* ConnectorConcern.execute: the body of the loop, for one peer.
ConnectorVisit(st, id) ==
    LET peer == st.peers[id]
    IN IF peer.host = NULL THEN st
       ELSE IF peer.conn_state = CONNECTING THEN connecting_peer(st, id)
       ELSE IF peer.conn_state = INITIAL THEN connect_peer(st, id, TRUE)
       ELSE IF peer.conn_state = NO_CONNECTION THEN reconnect_peer(st, id)
       ELSE st

\* ConnectorConcern.execute: the loop over the peers from the k-th on.
RECURSIVE ConnectorSweep(_, _)
ConnectorSweep(st, k) ==
    IF k > Len(PeerOrder) \/ st.exc # NULL THEN st
    ELSE ConnectorSweep(
            IF st.peers[PeerOrder[k]] = NoPeer THEN st ELSE ConnectorVisit(st, PeerOrder[k]),
            k + 1)

\* ConnectorConcern.execute
ConnectorExecute(st) == ConnectorSweep(st, 1)

(***************************************************************************)
(* concerns/heart_beat.py                                                  *)
(***************************************************************************)
\* HeartBeatConcern.compose_heart_beat_request
compose_heart_beat_request(st, id) ==
    LET peer == st.peers[id]
    IN MessageInit(st.uuid, id, NULL,
                   IF peer.conn_state = CONNECTED THEN id ELSE peer.via,
                   CMD_HB, KindOfReply(FALSE), CMD_HB, 0, DEFAULT_TIME_TO_LIVE,
                   <<>>, st.now, st.counter)

\* An expired_peer that goes on with the heart-beat of a silent peer
\* without marking it UNREACHABLE.
ExpiredPeerStaysReachable(st, id) ==
    LET peer == st.peers[id]
    IN IF TimerIsNone(peer.last_heart_beat_time) THEN Raise(st, "TypeError")
       ELSE IF peer.last_heart_beat_time + NO_CONNECTION_THRESHOLD < st.tick
       THEN [st EXCEPT !.peers[id].conn_state = NO_CONNECTION]
       ELSE LET timed == [st EXCEPT !.peers[id] = schedule_heart_beat(@, st.tick)]
                made == compose_heart_beat_request(timed, id)
            IN [timed EXCEPT !.counter = made.counter,
                             !.messages = Append(@, made.msg)]

\* HeartBeatConcern.expired_peer
expired_peer(st, id) ==
    LET peer == st.peers[id]
    IN IF TimerIsNone(peer.last_heart_beat_time) THEN Raise(st, "TypeError")
       ELSE IF peer.last_heart_beat_time + NO_CONNECTION_THRESHOLD < st.tick
       THEN [st EXCEPT !.peers[id].conn_state = NO_CONNECTION]
       ELSE LET marked == IF peer.last_heart_beat_time + UNRESPONSIVE_THRESHOLD < st.tick
                          THEN [st EXCEPT !.peers[id].conn_state = UNREACHABLE]
                          ELSE st
                timed == [marked EXCEPT !.peers[id] = schedule_heart_beat(@, st.tick)]
                made == compose_heart_beat_request(timed, id)
            IN [timed EXCEPT !.counter = made.counter,
                             !.messages = Append(@, made.msg)]

\* HeartBeatConcern.execute: the body of the loop, for one peer.
HeartBeatVisit(st, id) ==
    LET peer == st.peers[id]
    IN IF ~does_heart_beat(peer) THEN st
       ELSE IF TimerIsNone(peer.next_heart_beat_time) THEN Raise(st, "TypeError")
       ELSE IF peer.next_heart_beat_time <= st.tick THEN expired_peer(st, id)
       ELSE st

\* HeartBeatConcern.execute: the loop over the peers from the k-th on.
RECURSIVE HeartBeatSweep(_, _)
HeartBeatSweep(st, k) ==
    IF k > Len(PeerOrder) \/ st.exc # NULL THEN st
    ELSE HeartBeatSweep(
            IF st.peers[PeerOrder[k]] = NoPeer THEN st ELSE HeartBeatVisit(st, PeerOrder[k]),
            k + 1)

\* HeartBeatConcern.execute, up to the hand-over of `messages` to the sender.
HeartBeatExecute(st) == HeartBeatSweep(st, 1)

\* A process_request that also answers a peer never seen.
HeartBeatAnswersAnyone(st, message) ==
    LET made == create_reply(message, <<>>, st.now, st.counter)
        known == st.peers[message.source] # NoPeer
    IN [st EXCEPT !.peers[message.source] =
                      IF known THEN become_connected(@, message, st.tick) ELSE @,
                  !.counter = made.counter,
                  !.result = <<SPEED_FAST, made.msg>>]

\* HeartBeatConcern.process_request: the peer refreshed and the reply at
\* SPEED_FAST, or nothing for a peer never seen.
HeartBeatProcessRequest(st, message) ==
    IF st.peers[message.source] = NoPeer
    THEN st
    ELSE LET made == create_reply(message, <<>>, st.now, st.counter)
         IN [st EXCEPT !.peers[message.source] = become_connected(@, message, st.tick),
                       !.counter = made.counter,
                       !.result = <<SPEED_FAST, made.msg>>]

\* HeartBeatConcern.process_reply
HeartBeatProcessReply(st, message) ==
    IF st.peers[message.source] = NoPeer
    THEN st
    ELSE [st EXCEPT !.peers[message.source] = become_connected(@, message, st.tick)]

(***************************************************************************)
(* The state of a node                                                     *)
(***************************************************************************)
\* The `results` dictionary of process_common, before anything is collected.
EmptyResults == [s \in Speeds |-> <<>>]

\* The app worker between two passes of LocalPeer.execute. `i` counts the
\* dequeue calls of the running process_common, `batch` is what is left of
\* the list the last one returned, `cur` is the connect message whose
\* handler has looked its peer up and not yet updated it, `handled` counts
\* the messages of the running process_common handed to a handler, `exc`
\* is the exception that ended the pass and `skipped` the number of
\* messages dequeued in that pass and never looked at.
AppIdle ==
    [pc |-> "idle", i |-> 0, batch |-> <<>>, cur |-> NoMessage,
     results |-> EmptyResults, handled |-> 0, exc |-> NULL, skipped |-> 0]

\* The sender worker between two passes of Sender.execute. `q` is the
\* queue being drained (0 for none), `batch` what is left of the list its
\* dequeue returned, `sent` the queues of the messages handled so far in
\* the pass, in the order they were handled.
SndIdle == [pc |-> "idle", q |-> 0, batch |-> <<>>, sent |-> <<>>, exc |-> NULL]

\* No codec round trip under way.
CodecIdle == [phase |-> "idle"]

\* No ask-around call under observation.
AskIdle == [phase |-> "idle"]

\* Two threads of a process that make messages: the app worker (the
\* concerns) and the receiver (Message.parse of a frame without an id).
IdThreads == {"app", "receiver"}

\* No thread is inside get_next_message_id and none has called it.
NoAlloc ==
    [threads |-> [t \in IdThreads |-> [pc |-> "idle", reg |-> 0, calls |-> 0]],
     log |-> <<>>]

\* No process_routes call observed yet.
NoRoutes == [called |-> FALSE]

\* No send_message call observed yet.
NothingSeen == [called |-> FALSE]

InitNodes ==
    /\ tick = [n \in Nodes |-> 0]
    /\ connection_queue = [n \in Nodes |-> <<>>]
    /\ out_queues = [n \in Nodes |-> [s \in Speeds |-> <<>>]]
    /\ typed_queues = [n \in Nodes |-> [k \in Kinds |-> <<>>]]
    /\ wire = [n \in Nodes |-> <<>>]
    /\ snd = [n \in Nodes |-> SndIdle]
    /\ seen = [n \in Nodes |-> NothingSeen]
    /\ db = [n \in Nodes |-> StartedDb(0)]
    /\ life = [n \in Nodes |-> RunningLife]
    /\ registry = [n \in Nodes |-> StartedRegistry]
    /\ links = [n \in Nodes |-> [p \in Nodes |-> 0]]
    /\ routed = [n \in Nodes |-> NoRoutes]
    /\ ask = AskIdle
    /\ alloc = [n \in Nodes |-> NoAlloc]

\* What a method of a concern of node n starts from.
St(n) ==
    [peers |-> peers[n], connection_queue |-> connection_queue[n],
     counter |-> next_message_id[n], tick |-> tick[n], now |-> now,
     uuid |-> n, messages |-> <<>>, exc |-> NULL, result |-> <<>>]

\* What a method of a concern of node n leaves behind.
Commit(n, st) ==
    /\ peers' = [peers EXCEPT ![n] = st.peers]
    /\ connection_queue' = [connection_queue EXCEPT ![n] = st.connection_queue]
    /\ next_message_id' = [next_message_id EXCEPT ![n] = st.counter]

\* Message.validate_messages_for_send, for a list of messages.
validate_messages_for_send(messages, app_tick) ==
    \A k \in 1..Len(messages) : valid_for_send(messages[k], app_tick)

\* The commands that have a concern registered (ConcernsManager.concerns):
\* the two library concerns and one concern of the application.
Concerns == {CMD_HB, CMD_HELLO, CMD_APP}

\* An exception leaves LocalPeer.execute: the locals of the pass are gone.
AppRaised(exc, skipped) == [AppIdle EXCEPT !.pc = "raised", !.exc = exc, !.skipped = skipped]

(***************************************************************************)
(* The app worker: app/local_peer.py and concerns/manager.py               *)
(***************************************************************************)
\* LocalPeer.execute begins: the loop has read the clock into app.tick,
\* and execute_concerns runs the concerns in the order they were added:
\* HeartBeatConcern.execute, with the sender's enqueue_fast of what it
\* composed (which asserts the messages valid for send), and
\* ConnectorConcern.execute.
AppConcerns(n) ==
    /\ app[n].pc = "idle"
    /\ tick' = [tick EXCEPT ![n] = now]
    /\ LET began == [St(n) EXCEPT !.tick = now]
           beat == HeartBeatExecute(began)
           sound == beat.exc = NULL /\ validate_messages_for_send(beat.messages, now)
           st == IF sound THEN ConnectorExecute(beat) ELSE beat
       IN /\ Commit(n, st)
          /\ out_queues' = [out_queues EXCEPT ![n][SPEED_FAST] =
                                IF sound THEN @ \o beat.messages ELSE @]
          /\ app' = [app EXCEPT ![n] =
                        IF st.exc # NULL THEN AppRaised(st.exc, 0)
                        ELSE IF ~sound THEN AppRaised("AssertionError", 0)
                        ELSE [AppIdle EXCEPT !.pc = "requests"]]
    /\ UNCHANGED <<now, typed_queues, wire, snd, seen, env, codec, db, life, registry, links, routed, ask, alloc>>

\* The inbound queue process_common works on in each phase of the pass.
KindOfPhase(pc) == IF pc = "requests" THEN MESSAGE_TYPE_REQUEST ELSE MESSAGE_TYPE_REPLY

\* The app worker is inside the loop of process_common.
Dispatching(n) == app[n].pc \in {"requests", "replies"}

\* process_common, the head of the outer loop: range() is exhausted or the
\* queue has nothing (the call returns, and the next one starts), or
\* dequeue returns a list of up to MaxBatch messages.
AppDequeue(n) ==
    /\ Dispatching(n)
    /\ app[n].batch = <<>>
    /\ app[n].cur = NoMessage
    /\ LET k == KindOfPhase(app[n].pc)
           q == typed_queues[n][k]
       IN IF app[n].i >= PROCESS_LIMIT_PER_LOOP \/ q = <<>>
          THEN /\ app' = [app EXCEPT ![n].pc = IF @ = "requests" THEN "replies" ELSE "enqueue",
                                     ![n].i = 0,
                                     ![n].handled = 0]
               /\ UNCHANGED typed_queues
          ELSE \E size \in 1..Min(Len(q), MaxBatch) :
                  /\ app' = [app EXCEPT ![n].i = @ + 1,
                                        ![n].batch = SubSeq(q, 1, size)]
                  /\ typed_queues' = [typed_queues EXCEPT ![n][k] =
                                          SubSeq(q, size + 1, Len(q))]
    /\ UNCHANGED <<now, tick, next_message_id, peers, connection_queue,
                   out_queues, wire, snd, seen, env, codec, db, life, registry, links, routed, ask, alloc>>

\* The message the inner loop of process_common is at.
Current(n) == Head(app[n].batch)

\* The inner loop can take its next message.
AtMessage(n) == Dispatching(n) /\ app[n].batch # <<>> /\ app[n].cur = NoMessage

\* The inner loop moves on; a handler was called when `called`, and
\* `result` is what it returned (<<>> for None).
Continue(a, called, result) ==
    [a EXCEPT !.batch = Tail(@),
              !.cur = NoMessage,
              !.handled = IF called THEN @ + 1 ELSE @,
              !.results = IF result = <<>> THEN @
                          ELSE [@ EXCEPT ![result[1]] = Append(@, result[2])]]

\* process_common: no concern under the command of the message (KeyError).
AppDispatchUnknown(n) ==
    /\ AtMessage(n)
    /\ Current(n).command \notin Concerns
    /\ app' = [app EXCEPT ![n] = Continue(@, FALSE, <<>>)]
    /\ UNCHANGED <<now, tick, next_message_id, peers, connection_queue,
                   out_queues, typed_queues, wire, snd, seen, env, codec, db, life, registry, links, routed, ask, alloc>>

\* process_common: a heart-beat message, handled by HeartBeatConcern.
AppDispatchHeartBeat(n) ==
    /\ AtMessage(n)
    /\ Current(n).command = CMD_HB
    /\ LET message == [Current(n) EXCEPT !.handler = CMD_HB]
           st == IF app[n].pc = "replies"
                 THEN HeartBeatProcessReply(St(n), message)
                 ELSE HeartBeatProcessRequest(St(n), message)
       IN /\ Commit(n, st)
          /\ app' = [app EXCEPT ![n] = Continue(@, TRUE, st.result)]
    /\ UNCHANGED <<now, tick, out_queues, typed_queues, wire, snd, seen, env, codec, db, life, registry, links, routed, ask, alloc>>

\* message.payload['host'] and message.payload['port'] can be read.
HasAddress(payload) == {"host", "port"} \subseteq DOMAIN payload

\* ConnectorConcern.process_request, from `peer.last_heart_beat_time = ...`
\* on, preceded by the two assignments of the known-peer branch (which
\* leave a peer just built from the same payload as it is): the part of
\* the handler that runs on the peer object outside peers_lock.
ConnectorRequestUpdate(st, message) ==
    LET id == message.source
        told == [st EXCEPT !.peers[id].host = message.payload.host,
                           !.peers[id].port = message.payload.port,
                           !.peers[id].last_heart_beat_time = st.tick]
        acted == IF needs_reconnect(told.peers[id])
                 THEN connect_peer(told, id, TRUE)
                 ELSE [told EXCEPT !.peers[id] = become_connected(@, message, st.tick)]
        made == create_reply(message,
                             [host |-> bind_address(st.uuid), port |-> bind_port(st.uuid)],
                             st.now, acted.counter)
    IN [acted EXCEPT !.counter = made.counter,
                     !.result = <<SPEED_FAST, made.msg>>]

\* ConnectorConcern.process_reply, after the locked lookup.
ConnectorReplyUpdate(st, message) ==
    LET id == message.source
    IN [st EXCEPT !.peers[id] =
            become_connected([@ EXCEPT !.host = message.payload.host,
                                       !.port = message.payload.port],
                             message, st.tick)]

\* process_common: a connect message, handled by ConnectorConcern, up to
\* the end of its locked lookup. The handler raises on a payload without
\* address before it changes anything (process_common logs and goes on);
\* process_request adds a peer it has never heard of; process_reply
\* returns None for one.
AppHelloLookup(n) ==
    /\ AtMessage(n)
    /\ Current(n).command = CMD_HELLO
    /\ LET message == [Current(n) EXCEPT !.handler = CMD_HELLO]
           id == message.source
           known == peers[n][id] # NoPeer
           over == \/ ~HasAddress(message.payload)
                   \/ app[n].pc = "replies" /\ ~known
       IN /\ app' = [app EXCEPT ![n] =
                        IF over THEN Continue(@, TRUE, <<>>)
                        ELSE [@ EXCEPT !.cur = message]]
          /\ peers' = IF ~over /\ ~known
                      THEN [peers EXCEPT ![n][id] =
                               Peer(id, message.payload.host, message.payload.port, NoTime)]
                      ELSE peers
    /\ UNCHANGED <<now, tick, next_message_id, connection_queue, out_queues,
                   typed_queues, wire, snd, seen, env, codec, db, life, registry, links, routed, ask, alloc>>

\* The rest of the connect handler: it updates the peer it has looked up
\* without holding peers_lock, and returns.
AppHelloUpdate(n) ==
    /\ Dispatching(n)
    /\ app[n].cur # NoMessage
    /\ LET st == IF app[n].pc = "replies"
                 THEN ConnectorReplyUpdate(St(n), app[n].cur)
                 ELSE ConnectorRequestUpdate(St(n), app[n].cur)
       IN /\ Commit(n, st)
          /\ app' = [app EXCEPT ![n] = Continue(@, TRUE, st.result)]
    /\ UNCHANGED <<now, tick, out_queues, typed_queues, wire, snd, seen, env, codec, db, life, registry, links, routed, ask, alloc>>

\* process_common: a message of the application's concern, whose handler
\* returns None or a (priority, message) pair.
AppDispatchUser(n) ==
    /\ AtMessage(n)
    /\ Current(n).command = CMD_APP
    /\ \E answers \in BOOLEAN :
          LET message == [Current(n) EXCEPT !.handler = CMD_APP]
              made == create_reply(message, <<>>, now, next_message_id[n])
          IN /\ app' = [app EXCEPT ![n] =
                           Continue(@, TRUE, IF answers THEN <<SPEED_MEDIUM, made.msg>> ELSE <<>>)]
             /\ next_message_id' = [next_message_id EXCEPT ![n] =
                                       IF answers THEN made.counter ELSE @]
    /\ UNCHANGED <<now, tick, peers, connection_queue, out_queues,
                   typed_queues, wire, snd, seen, env, codec, db, life, registry, links, routed, ask, alloc>>

\* process_common: the handler raises an Exception; it is logged and the
\* loop continues.
AppUserRaises(n) ==
    /\ AtMessage(n)
    /\ Current(n).command = CMD_APP
    /\ app' = [app EXCEPT ![n] = Continue(@, TRUE, <<>>)]
    /\ UNCHANGED <<now, tick, next_message_id, peers, connection_queue,
                   out_queues, typed_queues, wire, snd, seen, env, codec, db, life, registry, links, routed, ask, alloc>>

\* process_common: the handler returns a value that is neither None nor a
\* (priority, message) pair. `priority, result = result` and
\* `results[priority]` stand after the try block: the exception leaves
\* process_common, and with it the rest of the list and the results.
AppUserMalformed(n) ==
    /\ AtMessage(n)
    /\ Current(n).command = CMD_APP
    /\ app' = [app EXCEPT ![n] = AppRaised("ValueError", Len(Tail(app[n].batch)))]
    /\ UNCHANGED <<now, tick, next_message_id, peers, connection_queue,
                   out_queues, typed_queues, wire, snd, seen, env, codec, db, life, registry, links, routed, ask, alloc>>

\* LocalPeer.execute ends: sender.enqueue_all hands over what the handlers
\* returned (and asserts it valid for send).
AppEnqueueAll(n) ==
    /\ app[n].pc = "enqueue"
    /\ LET ok == \A s \in Speeds : validate_messages_for_send(app[n].results[s], tick[n])
       IN /\ out_queues' = [out_queues EXCEPT ![n] =
                               IF ok THEN [s \in Speeds |-> @[s] \o app[n].results[s]] ELSE @]
          /\ app' = [app EXCEPT ![n] = IF ok THEN AppIdle ELSE AppRaised("AssertionError", 0)]
    /\ UNCHANGED <<now, tick, next_message_id, peers, connection_queue,
                   typed_queues, wire, snd, seen, env, codec, db, life, registry, links, routed, ask, alloc>>

\* The loop of the app thread goes on after an exception left a pass.
AppResume(n) ==
    /\ app[n].pc = "raised"
    /\ app' = [app EXCEPT ![n] = AppIdle]
    /\ UNCHANGED <<now, tick, next_message_id, peers, connection_queue,
                   out_queues, typed_queues, wire, snd, seen, env, codec, db, life, registry, links, routed, ask, alloc>>

(***************************************************************************)
(* The sender worker (app/client.py, modelled from the specification and   *)
(* from tests/unit/app/test_client.py)                                     *)
(***************************************************************************)
\* A node that has not been created: none of its workers runs.
AppOff == [AppIdle EXCEPT !.pc = "off"]

Started(n) == app[n].pc # "off"

\* An exception leaves Sender.execute.
SndRaised(exc) == [SndIdle EXCEPT !.pc = "raised", !.exc = exc]

\* The messages the sender of a node has still to handle.
Outbound(n) ==
    Len(out_queues[n][SPEED_FAST]) + Len(out_queues[n][SPEED_MEDIUM])
        + Len(out_queues[n][SPEED_SLOW]) + Len(snd[n].batch)

\* Sender.execute begins. The thread sleeps on its event until something
\* is enqueued; a pass that finds every queue empty changes nothing.
SndBegin(n) ==
    /\ Started(n)
    /\ snd[n].pc = "idle"
    /\ connection_queue[n] # <<>> \/ Outbound(n) > 0
    /\ snd' = [snd EXCEPT ![n] = [SndIdle EXCEPT !.pc = "connect"]]
    /\ UNCHANGED <<now, tick, next_message_id, peers, connection_queue,
                   out_queues, typed_queues, wire, app, seen, env, codec, db, life, registry, links, routed, ask, alloc>>

\* The sender marks the peer object of a connection item (`_first_connect`).
MarkFirstConnect(table, id) ==
    IF table[id] = NoPeer THEN table ELSE [table EXCEPT ![id].first_connect = TRUE]

\* Sender.connect_peers, one {peer: message} item: the socket connects to
\* the address of the peer and the message goes to the fast queue.
SndConnectOk(n) ==
    /\ snd[n].pc = "connect"
    /\ connection_queue[n] # <<>>
    /\ LET item == Head(connection_queue[n])
       IN /\ peers' = [peers EXCEPT ![n] = MarkFirstConnect(@, item.peer)]
          /\ out_queues' = [out_queues EXCEPT ![n][SPEED_FAST] = Append(@, item.message)]
          /\ links' = [links EXCEPT ![n][item.peer] = @ + 1]
    /\ connection_queue' = [connection_queue EXCEPT ![n] = Tail(@)]
    /\ UNCHANGED <<now, tick, next_message_id, typed_queues, wire, app, snd, seen, env, codec, db, life, registry, routed, ask, alloc>>

\* The sender-side callbacks of the handler of a message, which run on the
\* sender thread: ConnectorConcern.send_failed / message_dropped (under
\* peers_lock; the lookup raises KeyError for a peer no longer there) and
\* Concern.send_failed / message_dropped of the other concerns.
OnSendFailedOrDropped(st, message) ==
    IF message.handler # CMD_HELLO THEN st
    ELSE IF st.peers[message.to] = NoPeer THEN Raise(st, "KeyError")
    ELSE declare_no_connection(st, message.to)

\* A message_sent that also takes the send for a sign of life of the peer.
OnMessageSentRefreshes(st, message) ==
    IF message.handler # CMD_HELLO THEN st
    ELSE IF st.peers[message.to] = NoPeer THEN Raise(st, "KeyError")
    ELSE [st EXCEPT !.peers[message.to] =
             reset_heart_beat([@ EXCEPT !.conn_state = CONNECTING], st.tick)]

\* ConnectorConcern.message_sent, and Concern.message_sent of the others.
OnMessageSent(st, message) ==
    IF message.handler # CMD_HELLO THEN st
    ELSE IF st.peers[message.to] = NoPeer THEN Raise(st, "KeyError")
    ELSE [st EXCEPT !.peers[message.to].conn_state = CONNECTING]

\* Sender.connect_peers, one item: socket.connect raises ZMQError and the
\* handler of the message is told send_failed.
SndConnectError(n) ==
    /\ snd[n].pc = "connect"
    /\ connection_queue[n] # <<>>
    /\ LET item == Head(connection_queue[n])
           marked == [St(n) EXCEPT !.peers = MarkFirstConnect(@, item.peer)]
           st == OnSendFailedOrDropped(marked, item.message)
       IN /\ peers' = [peers EXCEPT ![n] = st.peers]
          /\ snd' = [snd EXCEPT ![n] = IF st.exc = NULL THEN @ ELSE SndRaised(st.exc)]
    /\ connection_queue' = [connection_queue EXCEPT ![n] = Tail(@)]
    /\ UNCHANGED <<now, tick, next_message_id, out_queues, typed_queues, wire, app, seen, env, codec, db, life, registry, links, routed, ask, alloc>>

\* Sender.connect_peers returns (the connection queue is empty) and
\* Sender.execute turns to the fast queue.
SndConnectDone(n) ==
    /\ snd[n].pc = "connect"
    /\ connection_queue[n] = <<>>
    /\ snd' = [snd EXCEPT ![n].pc = "dequeue", ![n].q = SPEED_FAST]
    /\ UNCHANGED <<now, tick, next_message_id, peers, connection_queue,
                   out_queues, typed_queues, wire, app, seen, env, codec, db, life, registry, links, routed, ask, alloc>>

\* A dequeue that hands out the newest messages.
DequeueNewest(q, size) == SubSeq(q, Len(q) - size + 1, Len(q))

\* MessageQueue.dequeue: the messages at the head of the queue, oldest
\* first.
DequeueBatch(q, size) == SubSeq(q, 1, size)

\* The queues Sender.execute has still to call execute_queue on, from
\* queue `from` on, that have something to dequeue.
Pending(n, from) == {s \in Speeds : s >= from /\ out_queues[n][s] # <<>>}

\* The first of a set of queues in the order of Sender.execute.
First(S) == CHOOSE s \in S : \A r \in S : s <= r

\* Sender.execute, the calls of execute_queue: on the fast, the medium
\* and the slow queue in turn, each one dequeue call; a queue that has
\* nothing is passed over, and after the slow queue the pass ends.
SndDequeue(n) ==
    /\ snd[n].pc = "dequeue"
    /\ IF Pending(n, snd[n].q) = {}
       THEN /\ snd' = [snd EXCEPT ![n] = SndIdle]
            /\ seen' = [seen EXCEPT ![n] = NothingSeen]
            /\ UNCHANGED out_queues
       ELSE LET s == First(Pending(n, snd[n].q))
                q == out_queues[n][s]
            IN \E size \in 1..Min(Len(q), MaxBatch) :
                  /\ snd' = [snd EXCEPT ![n].pc = "send", ![n].q = s,
                                        ![n].batch = DequeueBatch(q, size)]
                  /\ out_queues' = [out_queues EXCEPT ![n][s] = SubSeq(q, size + 1, Len(q))]
                  /\ UNCHANGED seen
    /\ UNCHANGED <<now, tick, next_message_id, peers, connection_queue,
                   typed_queues, wire, app, env, codec, db, life, registry, links, routed, ask, alloc>>

\* The message Sender.send_message is called with.
Sending(n) == Head(snd[n].batch)

\* Sender.execute_queue after one send_message call: the next message of
\* the list, or the next queue.
AfterSend(s) ==
    LET logged == [s EXCEPT !.batch = Tail(@), !.sent = Append(@, s.q)]
    IN IF logged.batch = <<>>
       THEN [logged EXCEPT !.pc = "dequeue", !.q = @ + 1]
       ELSE logged

\* What a send_message call did: whether socket.send_multipart was called
\* and how often each callback of the handler was.
Seen(message, app_tick, transport, on_sent, on_send_failed, on_dropped) ==
    [called |-> TRUE, time_to_live |-> message.time_to_live, tick |-> app_tick,
     transport |-> transport, on_sent |-> on_sent,
     on_send_failed |-> on_send_failed, on_dropped |-> on_dropped]

\* Sender.send_message: `assert message.valid_for_send(self.app)` fails.
SndSendInvalid(n) ==
    /\ snd[n].pc = "send"
    /\ ~valid_for_send(Sending(n), tick[n])
    /\ seen' = [seen EXCEPT ![n] = Seen(Sending(n), tick[n], FALSE, 0, 0, 0)]
    /\ snd' = [snd EXCEPT ![n] = SndRaised("AssertionError")]
    /\ UNCHANGED <<now, tick, next_message_id, peers, connection_queue,
                   out_queues, typed_queues, wire, app, env, codec, db, life, registry, links, routed, ask, alloc>>

\* The transport takes a frame: it reaches the receiver of the node its
\* first part names, if that node runs one in this mesh.
Carry(w, frame, from) ==
    LET target == TransportTarget(frame)
    IN IF target \in Nodes /\ Started(target)
       THEN [w EXCEPT ![target] = Append(@, TransportDeliver(frame, from))]
       ELSE w

\* Sender.send_message: the message is encoded, send_multipart succeeds
\* and the handler is told message_sent.
SndSendOk(n) ==
    /\ snd[n].pc = "send"
    /\ valid_for_send(Sending(n), tick[n])
    /\ LET st == OnMessageSent(St(n), Sending(n))
       IN /\ peers' = [peers EXCEPT ![n] = st.peers]
          /\ snd' = [snd EXCEPT ![n] = IF st.exc = NULL THEN AfterSend(@) ELSE SndRaised(st.exc)]
    /\ wire' = Carry(wire, encode(Sending(n), n), n)
    /\ seen' = [seen EXCEPT ![n] = Seen(Sending(n), tick[n], TRUE, 1, 0, 0)]
    /\ UNCHANGED <<now, tick, next_message_id, connection_queue, out_queues,
                   typed_queues, app, env, codec, db, life, registry, links, routed, ask, alloc>>

\* A send_message that takes the deadline for passed only once the tick is
\* beyond it.
ExpiredWhenBeyond(message, app_tick) == message.time_to_live < app_tick

\* The deadline of a message has passed, as send_message sees it.
Expired(message, app_tick) == message.time_to_live <= app_tick

\* Sender.send_message: send_multipart raises ZMQError. The handler is
\* told message_dropped when the deadline has passed and send_failed
\* otherwise; a message that send_failed returns goes back to the queue it
\* came from (the library concerns return None, the application's concern
\* returns the message when it `retries`).
SndSendError(n) ==
    /\ snd[n].pc = "send"
    /\ valid_for_send(Sending(n), tick[n])
    /\ \E retries \in BOOLEAN :
          LET message == Sending(n)
              late == Expired(message, tick[n])
              st == OnSendFailedOrDropped(St(n), message)
              again == ~late /\ retries /\ message.handler = CMD_APP
          IN /\ retries => message.handler = CMD_APP /\ ~late
             /\ peers' = [peers EXCEPT ![n] = st.peers]
             /\ snd' = [snd EXCEPT ![n] = IF st.exc = NULL THEN AfterSend(@) ELSE SndRaised(st.exc)]
             /\ out_queues' = [out_queues EXCEPT ![n][snd[n].q] =
                                  IF again THEN Append(@, message) ELSE @]
             /\ seen' = [seen EXCEPT ![n] =
                            Seen(message, tick[n], TRUE, 0,
                                 IF late THEN 0 ELSE 1, IF late THEN 1 ELSE 0)]
    /\ UNCHANGED <<now, tick, next_message_id, connection_queue, typed_queues,
                   wire, app, env, codec, db, life, registry, links, routed, ask, alloc>>

\* The loop of the sender thread goes on after an exception left a pass.
SndResume(n) ==
    /\ snd[n].pc = "raised"
    /\ snd' = [snd EXCEPT ![n] = SndIdle]
    /\ UNCHANGED <<now, tick, next_message_id, peers, connection_queue,
                   out_queues, typed_queues, wire, app, seen, env, codec, db, life, registry, links, routed, ask, alloc>>

(***************************************************************************)
(* The receiver worker (app/server.py, modelled from the specification)    *)
(***************************************************************************)
\* Receiver.execute, one frame: parsed, and queued by its kind; a frame
\* that does not parse is dropped.
Receive(n) ==
    /\ Started(n)
    /\ wire[n] # <<>>
    /\ LET got == parse(Head(wire[n]), n, now, next_message_id[n])
       IN /\ typed_queues' = [typed_queues EXCEPT ![n] =
                                 IF got.msg = NoMessage \/ got.msg.kind \notin Kinds THEN @
                                 ELSE [@ EXCEPT ![got.msg.kind] = Append(@, got.msg)]]
          /\ next_message_id' = [next_message_id EXCEPT ![n] = got.counter]
    /\ wire' = [wire EXCEPT ![n] = Tail(@)]
    /\ UNCHANGED <<now, tick, peers, connection_queue, out_queues, app, snd, seen, env, codec, db, life, registry, links, routed, ask, alloc>>

(***************************************************************************)
(* The environment of a node: the code that uses the library, the remote   *)
(* peers and the clock                                                     *)
(***************************************************************************)
\* The seconds the clock moves in one step.
ClockStep == HEART_BEAT_INTERVAL

\* PeerStore.add_peer, called by the application with a peer it was told
\* the address of.
EnvAddPeer(n, p) ==
    /\ Started(n)
    /\ p # n
    /\ peers[n][p] = NoPeer
    /\ env.calls > 0
    /\ env' = [env EXCEPT !.calls = @ - 1]
    /\ peers' = [peers EXCEPT ![n][p] = Peer(p, bind_address(p), bind_port(p), NoTime)]
    /\ UNCHANGED <<now, tick, next_message_id, connection_queue, out_queues,
                   typed_queues, wire, app, snd, seen, codec, db, life, registry, links, routed, ask, alloc>>

\* PeerStore.take_peer, called by the application between two handler
\* calls of the app worker.
EnvTakePeer(n, p) ==
    /\ Started(n)
    /\ peers[n][p] # NoPeer
    /\ app[n].cur = NoMessage
    /\ env.calls > 0
    /\ env' = [env EXCEPT !.calls = @ - 1]
    /\ peers' = [peers EXCEPT ![n][p] = NoPeer]
    /\ UNCHANGED <<now, tick, next_message_id, connection_queue, out_queues,
                   typed_queues, wire, app, snd, seen, codec, db, life, registry, links, routed, ask, alloc>>

\* The frames waiting for the workers of a node.
Inbound(n) ==
    Len(wire[n]) + Len(typed_queues[n][MESSAGE_TYPE_REQUEST])
                 + Len(typed_queues[n][MESSAGE_TYPE_REPLY])

\* The payload a remote peer puts in a message of a command; `sound` is
\* FALSE for a connect message that lacks the address.
RemotePayload(src, cmd, sound) ==
    IF cmd = CMD_HELLO /\ sound
    THEN [host |-> bind_address(src), port |-> bind_port(src)]
    ELSE <<>>

\* A node outside the model sends a frame to node n: `hop` is the node
\* the frame comes from, `src` the node the message is from (the same
\* node, or one that `hop` relays for). The frame is what Message.encode
\* makes of such a message at `hop`.
EnvFrame(n, hop, src, kind, cmd, sound) ==
    /\ Started(n)
    /\ ~Started(hop)
    /\ ~Started(src)
    /\ Inbound(n) < MaxInbound
    /\ env.frames > 0
    /\ env' = [env EXCEPT !.frames = @ - 1]
    /\ LET made == MessageInit(src, n, NULL, n, cmd, kind, cmd, 1, DEFAULT_TIME_TO_LIVE,
                               RemotePayload(src, cmd, sound), now, 0)
       IN wire' = Carry(wire, encode(made.msg, hop), hop)
    /\ UNCHANGED <<now, tick, next_message_id, peers, connection_queue,
                   out_queues, typed_queues, app, snd, seen, codec, db, life, registry, links, routed, ask, alloc>>

\* The application composes a message of its own concern and hands it to
\* Sender.enqueue with a priority (the call asserts the message valid).
UserEnqueue(n, to, speed, ttl) ==
    /\ Started(n)
    /\ to # n
    /\ Outbound(n) < MaxOutbound
    /\ env.calls > 0
    /\ env' = [env EXCEPT !.calls = @ - 1]
    /\ LET made == MessageInit(n, to, NULL, to, CMD_APP, KindOfReply(FALSE), CMD_APP, 0,
                               ttl, <<>>, now, next_message_id[n])
       IN /\ valid_for_send(made.msg, tick[n])
          /\ out_queues' = [out_queues EXCEPT ![n][speed] = Append(@, made.msg)]
          /\ next_message_id' = [next_message_id EXCEPT ![n] = made.counter]
    /\ UNCHANGED <<now, tick, peers, connection_queue, typed_queues, wire,
                   app, snd, seen, codec, db, life, registry, links, routed, ask, alloc>>

\* The clock moves, up to a horizon. The loop of the app thread of every
\* node begins a pass at least once in MaxLag steps of the clock.
Tick(horizon) ==
    /\ now + ClockStep <= horizon
    /\ \A n \in Nodes : Started(n) => now + ClockStep - tick[n] <= MaxLag * ClockStep
    /\ now' = now + ClockStep
    /\ UNCHANGED <<next_message_id, nodeVars, env, codec, db, life, registry, links, routed, ask, alloc>>

\* Nothing waits for a worker of node n and none of them is in a pass.
Calm(n) ==
    /\ app[n].pc \in {"idle", "off"}
    /\ snd[n].pc = "idle"
    /\ Inbound(n) = 0
    /\ Outbound(n) = 0
    /\ connection_queue[n] = <<>>

\* The clock moves between two bursts of work: the workers are through
\* with what they have well within one step of the clock.
TickCalm(horizon) ==
    /\ \A n \in Nodes : Calm(n)
    /\ Tick(horizon)

(***************************************************************************)
(* One node among remote peers                                             *)
(***************************************************************************)
InitOne ==
    /\ now = 0
    /\ next_message_id = [n \in Nodes |-> 0]
    /\ InitNodes
    /\ peers = [n \in Nodes |-> [p \in Nodes |-> NoPeer]]
    /\ app = [n \in Nodes |-> IF n = "n1" THEN AppIdle ELSE AppOff]
    /\ env = [frames |-> MaxFrames, calls |-> MaxCalls]
    /\ codec = CodecIdle

Init == InitOne

\* What n2 sends to n1: its connect request, its heart-beat reply, and
\* the heart-beat request of n3 that it relays.
RemoteFrames ==
    { <<"n2", MESSAGE_TYPE_REQUEST, CMD_HELLO>>,
      <<"n2", MESSAGE_TYPE_REPLY, CMD_HB>>,
      <<"n3", MESSAGE_TYPE_REQUEST, CMD_HB>> }

\* The node is n1; n2 is a remote peer that also relays for n3.
Next ==
    \/ AppConcerns("n1")
    \/ AppDequeue("n1")
    \/ AppDispatchHeartBeat("n1")
    \/ AppHelloLookup("n1")
    \/ AppHelloUpdate("n1")
    \/ AppEnqueueAll("n1")
    \/ SndBegin("n1")
    \/ SndConnectOk("n1")
    \/ SndConnectDone("n1")
    \/ SndDequeue("n1")
    \/ SndSendOk("n1")
    \/ Receive("n1")
    \/ \E p \in {"n2", "n3"} : EnvAddPeer("n1", p)
    \/ EnvTakePeer("n1", "n2")
    \/ \E f \in RemoteFrames : EnvFrame("n1", "n2", f[1], f[2], f[3], TRUE)
    \/ TickCalm(MaxTicks * ClockStep)

Spec == Init /\ [][Next]_vars

(***************************************************************************)
(* One node whose application sends                                        *)
(***************************************************************************)
\* What the application sends, as (priority, time to live): an urgent
\* message with no time to spare, one that lives for a step of the clock
\* and one with the default deadline.
SendMenu ==
    { <<SPEED_FAST, 0>>,
      <<SPEED_MEDIUM, HEART_BEAT_INTERVAL>>,
      <<SPEED_SLOW, DEFAULT_TIME_TO_LIVE>> }

InitSend ==
    /\ now = 0
    /\ next_message_id = [n \in Nodes |-> 0]
    /\ InitNodes
    /\ peers = [n \in Nodes |-> [p \in Nodes |-> NoPeer]]
    /\ app = [n \in Nodes |-> IF n = "n1" THEN AppIdle ELSE AppOff]
    /\ env = [frames |-> 0, calls |-> MaxSendCalls]
    /\ codec = CodecIdle

\* The node is n1; it is told of n2 and sends to it. Nothing comes in.
NextSend ==
    \/ AppConcerns("n1")
    \/ AppDequeue("n1")
    \/ AppEnqueueAll("n1")
    \/ SndBegin("n1")
    \/ SndConnectOk("n1")
    \/ SndConnectError("n1")
    \/ SndConnectDone("n1")
    \/ SndDequeue("n1")
    \/ SndSendInvalid("n1")
    \/ SndSendOk("n1")
    \/ SndSendError("n1")
    \/ SndResume("n1")
    \/ EnvAddPeer("n1", "n2")
    \/ \E item \in SendMenu : UserEnqueue("n1", "n2", item[1], item[2])
    \/ Tick(MaxTicks * ClockStep)

SpecSend == InitSend /\ [][NextSend]_vars

(***************************************************************************)
(* One node whose application has a concern of its own                     *)
(***************************************************************************)
\* What n2 sends to n1: requests and replies of the application's
\* command, and a request of a command n1 has no concern for.
DispatchFrames ==
    { <<MESSAGE_TYPE_REQUEST, CMD_APP>>,
      <<MESSAGE_TYPE_REPLY, CMD_APP>>,
      <<MESSAGE_TYPE_REQUEST, CMD_UNKNOWN>> }

NextDispatch ==
    \/ AppConcerns("n1")
    \/ AppDequeue("n1")
    \/ AppDispatchUnknown("n1")
    \/ AppDispatchUser("n1")
    \/ AppUserRaises("n1")
    \/ AppUserMalformed("n1")
    \/ AppEnqueueAll("n1")
    \/ AppResume("n1")
    \/ SndBegin("n1")
    \/ SndConnectDone("n1")
    \/ SndDequeue("n1")
    \/ SndSendOk("n1")
    \/ Receive("n1")
    \/ \E f \in DispatchFrames : EnvFrame("n1", "n2", "n2", f[1], f[2], TRUE)

SpecDispatch == InitOne /\ [][NextDispatch]_vars

(***************************************************************************)
(* One node that finds a backlog of requests                               *)
(***************************************************************************)
\* The requests waiting: heart-beats of n2, which n1 has not heard of,
\* as the receiver of n1 queued them.
Backlog == PROCESS_LIMIT_PER_LOOP + MaxBatch

BacklogRequest(k) ==
    LET made == MessageInit("n2", "n1", NULL, "n1", CMD_HB, KindOfReply(FALSE), CMD_HB, k,
                            DEFAULT_TIME_TO_LIVE, <<>>, 0, 0)
    IN parse(TransportDeliver(encode(made.msg, "n2"), "n2"), "n1", 0, 0).msg

InitBacklog ==
    /\ now = 0
    /\ next_message_id = [n \in Nodes |-> 0]
    /\ tick = [n \in Nodes |-> 0]
    /\ peers = [n \in Nodes |-> [p \in Nodes |-> NoPeer]]
    /\ connection_queue = [n \in Nodes |-> <<>>]
    /\ out_queues = [n \in Nodes |-> [s \in Speeds |-> <<>>]]
    /\ typed_queues = [n \in Nodes |-> [k \in Kinds |->
                          IF n = "n1" /\ k = MESSAGE_TYPE_REQUEST
                          THEN [j \in 1..Backlog |-> BacklogRequest(j)]
                          ELSE <<>>]]
    /\ wire = [n \in Nodes |-> <<>>]
    /\ app = [n \in Nodes |-> IF n = "n1" THEN AppIdle ELSE AppOff]
    /\ snd = [n \in Nodes |-> SndIdle]
    /\ seen = [n \in Nodes |-> NothingSeen]
    /\ db = [n \in Nodes |-> StartedDb(0)]
    /\ life = [n \in Nodes |-> RunningLife]
    /\ registry = [n \in Nodes |-> StartedRegistry]
    /\ links = [n \in Nodes |-> [p \in Nodes |-> 0]]
    /\ routed = [n \in Nodes |-> NoRoutes]
    /\ ask = AskIdle
    /\ alloc = [n \in Nodes |-> NoAlloc]
    /\ env = [frames |-> 0, calls |-> 0]
    /\ codec = CodecIdle

NextBacklog ==
    \/ AppConcerns("n1")
    \/ AppDequeue("n1")
    \/ AppDispatchHeartBeat("n1")
    \/ AppEnqueueAll("n1")

SpecBacklog == InitBacklog /\ [][NextBacklog]_vars

(***************************************************************************)
(* One node and a peer that stops answering                                *)
(***************************************************************************)
\* The time from which n2 is silent, and the time the run covers.
QuietFrom == ClockStep

QuietHorizon == 2 * NO_CONNECTION_THRESHOLD

\* What n2 sends to n1 while it answers: its replies to the connect and
\* heart-beat requests of n1.
QuietFrames ==
    { <<MESSAGE_TYPE_REPLY, CMD_HELLO>>,
      <<MESSAGE_TYPE_REPLY, CMD_HB>> }

\* n1 has been told of n2 (add_peer with host and port).
InitQuiet ==
    /\ now = 0
    /\ next_message_id = [n \in Nodes |-> 0]
    /\ InitNodes
    /\ app = [n \in Nodes |-> IF n = "n1" THEN AppIdle ELSE AppOff]
    /\ env = [frames |-> MaxFrames, calls |-> 0]
    /\ codec = CodecIdle
    /\ peers = [n \in Nodes |-> [p \in Nodes |->
                    IF n = "n1" /\ p = "n2"
                    THEN Peer("n2", bind_address("n2"), bind_port("n2"), NoTime)
                    ELSE NoPeer]]

\* The steps of the app worker, of the sender worker (whose sends
\* succeed) and of the receiver worker of a node that runs the library
\* concerns.
AppWorker(n) ==
    \/ AppConcerns(n)
    \/ AppDequeue(n)
    \/ AppDispatchHeartBeat(n)
    \/ AppHelloLookup(n)
    \/ AppHelloUpdate(n)
    \/ AppEnqueueAll(n)

SndWorker(n) ==
    \/ SndBegin(n)
    \/ SndConnectOk(n)
    \/ SndConnectDone(n)
    \/ SndDequeue(n)
    \/ SndSendOk(n)

QuietAnswer ==
    /\ now < QuietFrom
    /\ \E f \in QuietFrames : EnvFrame("n1", "n2", "n2", f[1], f[2], TRUE)

NextQuiet ==
    \/ AppWorker("n1")
    \/ SndWorker("n1")
    \/ Receive("n1")
    \/ QuietAnswer
    \/ TickCalm(QuietHorizon)

\* Every worker that has a step to take takes one, and time passes.
SpecQuiet ==
    /\ InitQuiet
    /\ [][NextQuiet]_vars
    /\ WF_vars(AppWorker("n1"))
    /\ WF_vars(SndWorker("n1"))
    /\ WF_vars(Receive("n1"))
    /\ SF_vars(TickCalm(QuietHorizon))

(***************************************************************************)
(* Two nodes with a working link                                           *)
(***************************************************************************)
Pair == {"n1", "n2"}

\* The run covers the connect exchange, which the app workers begin at most
\* MaxLag steps of the clock late, and the heart-beat that follows it.
PairHorizon == (MaxLag + 1) * HEART_BEAT_INTERVAL

\* Both nodes run, one step of the clock after they were built; n1 has been
\* told of n2 (add_peer with host and port).
InitPair ==
    /\ now = ClockStep
    /\ next_message_id = [n \in Nodes |-> 0]
    /\ InitNodes
    /\ app = [n \in Nodes |-> IF n \in Pair THEN AppIdle ELSE AppOff]
    /\ env = [frames |-> 0, calls |-> 0]
    /\ codec = CodecIdle
    /\ peers = [n \in Nodes |-> [p \in Nodes |->
                    IF n = "n1" /\ p = "n2"
                    THEN Peer("n2", bind_address("n2"), bind_port("n2"), NoTime)
                    ELSE NoPeer]]

\* Node n has nothing in hand: its app worker holds no message and no
\* result, its sender is between two passes and its queues are empty.
Quiet(n) ==
    /\ app[n].batch = <<>>
    /\ app[n].cur = NoMessage
    /\ app[n].results = EmptyResults
    /\ snd[n].pc = "idle"
    /\ Inbound(n) = 0
    /\ Outbound(n) = 0
    /\ connection_queue[n] = <<>>

\* The clock moves while the app workers keep looping over empty queues.
TickQuiet(horizon) ==
    /\ \A n \in Nodes : Quiet(n)
    /\ Tick(horizon)

\* The app worker of n has something to look at: it is in a pass, the
\* clock has moved since its last pass, or a message waits in a queue.
Due(n) ==
    \/ app[n].pc # "idle"
    \/ tick[n] < now
    \/ \E k \in Kinds : typed_queues[n][k] # <<>>

\* The passes of the app loop that can change something (the others
\* change nothing: UnduePassChangesNothing).
AppTurn(n) == Due(n) /\ AppWorker(n)

NextPair ==
    \/ \E n \in Pair : AppTurn(n)
    \/ \E n \in Pair : SndWorker(n)
    \/ \E n \in Pair : Receive(n)
    \/ TickCalm(PairHorizon)

\* Every worker of either node that has a step to take takes one, every
\* frame sent is delivered, and time passes.
SpecPair ==
    /\ InitPair
    /\ [][NextPair]_vars
    /\ \A n \in Pair : WF_vars(AppTurn(n)) /\ WF_vars(SndWorker(n)) /\ WF_vars(Receive(n))
    /\ WF_vars(TickCalm(PairHorizon))

\* The same two nodes with app loops that never rest.
NextPairBusy ==
    \/ \E n \in Pair : AppWorker(n)
    \/ \E n \in Pair : SndWorker(n)
    \/ \E n \in Pair : Receive(n)
    \/ TickQuiet(PairHorizon)

SpecPairBusy == InitPair /\ [][NextPairBusy]_vars

\* A pass of the app loop begun with nothing due.
UnduePass(n) ==
    /\ ~Due(n)
    /\ app'[n].pc = "requests"

\* Under SpecPairBusy: a pass begun with nothing due leaves the peers, the
\* queues and the clocks as they were, so that SpecPair loses none of the
\* states the two nodes go through.
UnduePassChangesNothing ==
    [][\A n \in Pair : UnduePass(n) =>
          UNCHANGED <<now, next_message_id, tick, peers, connection_queue,
                      out_queues, typed_queues, wire, snd, seen, db, life, registry, links, routed, ask, alloc>>]_vars

(***************************************************************************)
(* The codec round trip: node A encodes, the transport carries, B parses   *)
(***************************************************************************)
CodecPayloads == { [host |-> "127.0.0.1", port |-> 8402], [target |-> "n3"], <<>> }

\* A well-formed message in the hands of node a: the fields are node ids
\* (or None where the constructor allows it), the id comes from the counter.
CodecCompose ==
    /\ codec.phase = "idle"
    /\ \E a \in Nodes, src \in Nodes \cup {NULL}, to \in Nodes, nh \in Nodes \cup {NULL},
          k \in Kinds, cmd \in {CMD_HELLO, CMD_APP}, id \in 1..MaxCodecId, pl \in CodecPayloads :
          /\ to # a
          /\ nh # a
          /\ codec' = [phase |-> "composed", a |-> a,
                       m |-> MessageInit(src, to, NULL, nh, cmd, k, CMD_APP, id,
                                         DEFAULT_TIME_TO_LIVE, pl, now, 0).msg]
    /\ UNCHANGED <<now, next_message_id, nodeVars, env, db, life, registry, links, routed, ask, alloc>>

\* Node a encodes the message (which fills in its source and next hop) and
\* hands the frame to the transport.
CodecEncode ==
    /\ codec.phase = "composed"
    /\ codec' = [phase |-> "sent", a |-> codec.a,
                 m |-> EncodeFill(codec.m, codec.a),
                 frame |-> encode(codec.m, codec.a)]
    /\ UNCHANGED <<now, next_message_id, nodeVars, env, db, life, registry, links, routed, ask, alloc>>

\* The transport delivers the frame to the node its first part names, and
\* that node's receiver parses it.
CodecParse ==
    /\ codec.phase = "sent"
    /\ LET b == TransportTarget(codec.frame)
           got == parse(TransportDeliver(codec.frame, codec.a), b, now, next_message_id[b])
       IN /\ codec' = [phase |-> "parsed", a |-> codec.a, b |-> b, m |-> codec.m,
                       frame |-> codec.frame, out |-> got.msg]
          /\ next_message_id' = [next_message_id EXCEPT ![b] = got.counter]
    /\ UNCHANGED <<now, nodeVars, env, db, life, registry, links, routed, ask, alloc>>

CodecReset ==
    /\ codec.phase = "parsed"
    /\ codec' = CodecIdle
    /\ UNCHANGED <<now, next_message_id, nodeVars, env, db, life, registry, links, routed, ask, alloc>>

InitCodec ==
    /\ now = 0
    /\ next_message_id = [n \in Nodes |-> 0]
    /\ InitNodes
    /\ peers = [n \in Nodes |-> [p \in Nodes |-> NoPeer]]
    /\ app = [n \in Nodes |-> AppOff]
    /\ env = [frames |-> 0, calls |-> 0]
    /\ codec = CodecIdle

NextCodec ==
    \/ CodecCompose
    \/ CodecEncode
    \/ CodecParse
    \/ CodecReset

SpecCodec == InitCodec /\ [][NextCodec]_vars

(***************************************************************************)
(* C1: the relay of a routed peer                                          *)
(***************************************************************************)
\* C1: in every reachable state of a node, every peer in state ROUTED has
\* a via that names a peer of the same table whose state is CONNECTED.
C1_RoutedViaConnected ==
    \A n \in Nodes : \A p \in Nodes :
        (peers[n][p] # NoPeer /\ peers[n][p].conn_state = ROUTED) =>
            /\ peers[n][p].via \in Nodes
            /\ peers[n][peers[n][p].via] # NoPeer
            /\ peers[n][peers[n][p].via].conn_state = CONNECTED

(***************************************************************************)
(* C2: two nodes connect                                                   *)
(***************************************************************************)
\* The state of the connection of node n with peer p.
StateOf(n, p) == IF peers[n][p] = NoPeer THEN 0 ELSE peers[n][p].conn_state

\* Each of n1 and n2 has the other in its peer table, CONNECTED.
BothConnected == StateOf("n1", "n2") = CONNECTED /\ StateOf("n2", "n1") = CONNECTED

\* C2: two started nodes with a working direct link, n1 told of n2:
\* eventually the peer table of n2 has n1 and each node shows the other
\* CONNECTED.
C2_EventuallyBothConnected == <>BothConnected

\* n2 has learnt of n1 from its connect request, and each shows the other
\* CONNECTED.
C2_Witness ==
    /\ BothConnected
    /\ peers["n2"]["n1"].host = bind_address("n1")
    /\ peers["n2"]["n1"].port = bind_port("n1")

C4_ExpiredIsDropped ==
    \A n \in Nodes :
        (seen[n].called /\ seen[n].time_to_live <= seen[n].tick) =>
            /\ ~seen[n].transport
            /\ seen[n].on_dropped = 1
            /\ seen[n].on_sent = 0
            /\ seen[n].on_send_failed = 0

(***************************************************************************)
(* C5: the order in which the sender sends                                 *)
(***************************************************************************)
\* Within a pass the sender handled the messages of the fast queue first
\* and those of the slow queue last.
PriorityOrder(n) ==
    \A i, j \in 1..Len(snd[n].sent) : i < j => snd[n].sent[i] <= snd[n].sent[j]

\* A step leaves a queue as it is, or adds at its tail, or takes its
\* oldest messages, which become, oldest first, the list the sender is
\* to send.
FifoQueue(n, s) ==
    LET q == out_queues[n][s]
        r == out_queues'[n][s]
    IN \/ r = q
       \/ Len(r) > Len(q) /\ SubSeq(r, 1, Len(q)) = q
       \/ \E k \in 1..Len(q) :
             /\ r = SubSeq(q, k + 1, Len(q))
             /\ snd[n].batch = <<>>
             /\ snd'[n].batch = SubSeq(q, 1, k)

\* The sender sends the list it took from a queue from its head on.
FifoBatch(n) ==
    (snd[n].batch # <<>> /\ snd'[n].batch # snd[n].batch) =>
        snd'[n].batch \in {Tail(snd[n].batch), <<>>}

\* C5: in each pass of the sender, after connect_peers, every message
\* taken from the fast queue is sent before any taken from the medium
\* queue, and every one of those before any taken from the slow queue;
\* the messages of one queue leave in the order they were enqueued.
C5_PriorityThenFifo ==
    /\ [](\A n \in Nodes : PriorityOrder(n))
    /\ [][\A n \in Nodes : FifoBatch(n) /\ \A s \in Speeds : FifoQueue(n, s)]_vars

\* A pass of the sender has sent from the fast, the medium and the slow
\* queue, and two messages of one of them.
C5_Witness ==
    \E n \in Nodes :
        /\ Len(snd[n].sent) >= 3
        /\ snd[n].sent[1] = SPEED_FAST
        /\ snd[n].sent[Len(snd[n].sent)] = SPEED_SLOW
        /\ \E i \in 1..Len(snd[n].sent) : snd[n].sent[i] = SPEED_MEDIUM

(***************************************************************************)
(* C6: who changes a peer record                                           *)
(***************************************************************************)
\* The step is one of the sender worker of node n.
SndStep(n) ==
    \/ snd'[n] # snd[n]
    \/ Len(connection_queue'[n]) < Len(connection_queue[n])

\* The fields of a peer record that the library documents (the sender's
\* `_first_connect` mark on the object is not one of them).
Fields(peer) == IF peer = NoPeer THEN peer ELSE [peer EXCEPT !.first_connect = FALSE]

\* The record went to CONNECTING and is otherwise as it was.
SetConnecting(old, new) ==
    /\ old # NoPeer
    /\ new # NoPeer
    /\ Fields(new) = Fields([old EXCEPT !.conn_state = CONNECTING])

\* The record is what declare_no_connection makes of it at app.tick.
DeclaredNoConnection(old, new, app_tick) ==
    /\ old # NoPeer
    /\ new # NoPeer
    /\ Fields(new) = Fields([old EXCEPT !.conn_state = NO_CONNECTION,
                                        !.last_heart_beat_time = app_tick,
                                        !.next_heart_beat_time = app_tick + UNRESPONSIVE_RECONNECT_WAIT])

AppUnlockedOn(n, p) == app[n].cur # NoMessage /\ app[n].cur.source = p

\* The sender worker of node n is at a send whose callback (message_sent,
\* send_failed or message_dropped of the connector) reads and writes
\* peer p.
SndCallbackOn(n, p) ==
    /\ snd[n].pc = "send"
    /\ Sending(n).handler = CMD_HELLO
    /\ Sending(n).to = p

\* C7: the handlers touch the peer table and the peer records only with
\* peers_lock held, so the app worker and the sender worker are never at
\* the same peer record at the same time.
C7_PeersLockExcludes ==
    \A n \in Nodes : \A p \in Nodes : ~(AppUnlockedOn(n, p) /\ SndCallbackOn(n, p))

(***************************************************************************)
(* C8: a fault of one message during dispatch                              *)
(***************************************************************************)
\* C8: no fault of a single message ends the pass of the app loop or
\* keeps the other messages of the pass from being dispatched: the
\* message is dropped without a reply and the loop goes on.
C8_FaultIsContained ==
    \A n \in Nodes : app[n].exc = NULL /\ app[n].skipped = 0

(***************************************************************************)
(* C9: the limit of a pass                                                 *)
(***************************************************************************)
\* C9: in one pass the number of messages taken from an inbound queue
\* and handed to handlers is at most PROCESS_LIMIT_PER_LOOP, whatever the
\* size of the lists dequeue returns.
C9_AtMostLimit ==
    \A n \in Nodes : app[n].handled <= PROCESS_LIMIT_PER_LOOP

MaxValidTick == 2

\* A message whose fields are each filled in or None, with a deadline
\* before, at or after the tick, is in hand.
ValidCompose ==
    /\ codec.phase = "idle"
    /\ \E to \in {NULL, "n2"}, src \in {NULL, "n1"}, nh \in {NULL, "n2"},
          cmd \in {NULL, CMD_APP}, h \in {NULL, CMD_APP},
          k \in {NoTime, MESSAGE_TYPE_REQUEST}, id \in {NoTime, 1},
          ttl \in {NoTime} \cup 0..(MaxValidTick + 1), t \in 0..MaxValidTick :
          codec' = [phase |-> "composed", tick |-> t,
                    m |-> [source |-> src, to |-> to, previous_hop |-> NULL,
                           next_hop |-> nh, command |-> cmd, handler |-> h,
                           kind |-> k, payload |-> <<>>, time_to_live |-> ttl,
                           message_id |-> id]]
    /\ UNCHANGED <<now, next_message_id, nodeVars, env, db, life, registry, links, routed, ask, alloc>>

\* message.valid_for_send(app) is called.
ValidCall ==
    /\ codec.phase = "composed"
    /\ codec' = [phase |-> "validated", tick |-> codec.tick, m |-> codec.m,
                 valid |-> valid_for_send(codec.m, codec.tick)]
    /\ UNCHANGED <<now, next_message_id, nodeVars, env, db, life, registry, links, routed, ask, alloc>>

ValidReset ==
    /\ codec.phase = "validated"
    /\ codec' = CodecIdle
    /\ UNCHANGED <<now, next_message_id, nodeVars, env, db, life, registry, links, routed, ask, alloc>>

NextValid ==
    \/ ValidCompose
    \/ ValidCall
    \/ ValidReset

SpecValid == InitCodec /\ [][NextValid]_vars

\* The fields valid_for_send requires are all filled in.
RequiredFilled(m) ==
    /\ m.to # NULL
    /\ m.source # NULL
    /\ m.command # NULL
    /\ m.handler # NULL
    /\ m.kind # NoTime
    /\ m.message_id # NoTime
    /\ m.time_to_live # NoTime

\* C11: valid_for_send is true exactly when to, source, command, handler,
\* kind, message_id and time_to_live are filled in and time_to_live is
\* after the app tick; next_hop plays no part.
C11_ValidExactly ==
    codec.phase = "validated" =>
        (codec.valid <=> (RequiredFilled(codec.m) /\ codec.m.time_to_live > codec.tick))

(***************************************************************************)
(* C12: a send that fails                                                  *)
(***************************************************************************)
\* The step is a send_message of node n in which send_multipart raised.
SendErrorStep(n) ==
    /\ snd[n].pc = "send"
    /\ snd'[n] # snd[n]
    /\ seen'[n].called
    /\ seen'[n].transport
    /\ seen'[n].on_sent = 0

\* The queues of node n are as they were, but for `message` added at the
\* tail of queue s.
RequeuedOn(n, s, message) ==
    /\ out_queues'[n][s] = Append(out_queues[n][s], message)
    /\ \A r \in Speeds \ {s} : out_queues'[n][r] = out_queues[n][r]

\* C12: when send_multipart raises for a message whose deadline is after
\* the tick, send_failed of its handler is called once and message_dropped
\* is not, and the message it returns goes back to the queue the failed
\* message came from (nothing is enqueued when it returns None); once the
\* deadline is not after the tick the message is not retried any more.
C12_FailedThenRetried ==
    [][\A n \in Nodes : SendErrorStep(n) =>
          IF Sending(n).time_to_live > tick[n]
          THEN /\ seen'[n].on_send_failed = 1
               /\ seen'[n].on_dropped = 0
               /\ \/ out_queues'[n] = out_queues[n]
                  \/ RequeuedOn(n, snd[n].q, Sending(n))
          ELSE /\ seen'[n].on_send_failed = 0
               /\ out_queues'[n] = out_queues[n]]_vars

\* A send has failed before the deadline of the message, send_failed has
\* returned the message and it waits again in the queue it came from.
C12_Witness ==
    \E n \in Nodes :
        /\ seen[n].called
        /\ seen[n].on_send_failed = 1
        /\ seen[n].time_to_live > seen[n].tick
        /\ snd[n].sent # <<>>
        /\ LET q == out_queues[n][snd[n].sent[Len(snd[n].sent)]]
           IN q # <<>> /\ q[Len(q)].time_to_live = seen[n].time_to_live

(***************************************************************************)
(* C13: a peer that never answers                                          *)
(***************************************************************************)
\* The time the run covers: the connect request leaves at most MaxLag steps
\* of the clock late, the connector waits UNRESPONSIVE_THRESHOLD for the
\* reply and sees the clock beyond it at most MaxLag steps later.
MuteHorizon == UNRESPONSIVE_THRESHOLD + 2 * MaxLag * ClockStep

\* n1 runs alone; its peer table is empty.
InitMute ==
    /\ now = 0
    /\ next_message_id = [n \in Nodes |-> 0]
    /\ InitNodes
    /\ app = [n \in Nodes |-> IF n = "n1" THEN AppIdle ELSE AppOff]
    /\ env = [frames |-> 0, calls |-> MaxCalls]
    /\ codec = CodecIdle
    /\ peers = [n \in Nodes |-> [p \in Nodes |-> NoPeer]]

\* The application tells n1 of a peer (add_peer with host and port) as the
\* run begins. The address takes what is sent to it; nothing comes back.
MuteAdd(p) == now = 0 /\ EnvAddPeer("n1", p)

\* The steps of the app worker of a node to which nothing is sent.
MuteApp(n) ==
    \/ AppConcerns(n)
    \/ AppDequeue(n)
    \/ AppEnqueueAll(n)

NextMute ==
    \/ MuteApp("n1")
    \/ SndWorker("n1")
    \/ \E p \in {"n2", "n3"} : MuteAdd(p)
    \/ TickCalm(MuteHorizon)

\* Every worker that has a step to take takes one, and time passes.
SpecMute ==
    /\ InitMute
    /\ [][NextMute]_vars
    /\ WF_vars(MuteApp("n1"))
    /\ WF_vars(SndWorker("n1"))
    /\ SF_vars(TickCalm(MuteHorizon))

\* The app worker of node n begins a pass (execute_concerns) in which the
\* connector finds peer p CONNECTING with the clock beyond its timer.
ConnectorFindsLate(n, p) ==
    /\ app[n].pc = "idle"
    /\ app'[n].pc # "idle"
    /\ peers[n][p] # NoPeer
    /\ peers[n][p].conn_state = CONNECTING
    /\ peers[n][p].next_heart_beat_time # NoTime
    /\ now > peers[n][p].next_heart_beat_time

\* C13: a peer with a host from which no reply ever arrives eventually is
\* NO_CONNECTION, put there by the connector: a pass that finds it
\* CONNECTING with now > next_heart_beat_time leaves it NO_CONNECTION with
\* next_heart_beat_time = now + UNRESPONSIVE_RECONNECT_WAIT.
C13_MuteIsNoConnection ==
    /\ \A p \in {"n2", "n3"} :
          (StateOf("n1", p) \in {INITIAL, CONNECTING}) ~> (StateOf("n1", p) = NO_CONNECTION)
    /\ [][\A n \in Nodes : \A p \in Nodes : ConnectorFindsLate(n, p) =>
             /\ peers'[n][p].conn_state = NO_CONNECTION
             /\ peers'[n][p].next_heart_beat_time = now + UNRESPONSIVE_RECONNECT_WAIT]_vars

\* The connector has declared the peer, never heard from, NO_CONNECTION.
C13_Witness ==
    /\ StateOf("n1", "n2") = NO_CONNECTION
    /\ peers["n1"]["n2"].host # NULL
    /\ peers["n1"]["n2"].last_heart_beat_time = tick["n1"]
    /\ peers["n1"]["n2"].next_heart_beat_time = tick["n1"] + UNRESPONSIVE_RECONNECT_WAIT

(***************************************************************************)
(* C14: relay discovery                                                    *)
(***************************************************************************)

\* The record a node holds of peer p once the connect exchange begun at the
\* first step of the clock is over and both ends are at rest (the state the
\* two nodes of SpecPair come to).
Linked(p) ==
    [Peer(p, bind_address(p), bind_port(p), NoTime) EXCEPT
        !.conn_state = CONNECTED,
        !.next_heart_beat_time = ClockStep + HEART_BEAT_INTERVAL,
        !.last_heart_beat_time = ClockStep,
        !.first_connect = TRUE]

\* The three nodes run the concerns the library installs (start_concerns on
\* an empty registry: heart-beat and connector). n2 and n3 are connected
\* to each other; n1 has just been built, has been told of n2 (add_peer
\* with host and port) and holds a bare record of n3.
InitRelay ==
    /\ now = ClockStep
    /\ next_message_id = [n \in Nodes |-> IF n = "n1" THEN 0 ELSE 1]
    /\ connection_queue = [n \in Nodes |-> <<>>]
    /\ out_queues = [n \in Nodes |-> EmptyResults]
    /\ typed_queues = [n \in Nodes |-> [k \in Kinds |-> <<>>]]
    /\ wire = [n \in Nodes |-> <<>>]
    /\ snd = [n \in Nodes |-> SndIdle]
    /\ seen = [n \in Nodes |-> NothingSeen]
    /\ tick = [n \in Nodes |-> IF n = "n1" THEN 0 ELSE ClockStep]
    /\ db = [n \in Nodes |-> StartedDb(0)]
    /\ life = [n \in Nodes |-> RunningLife]
    /\ registry = [n \in Nodes |-> StartedRegistry]
    /\ links = [n \in Nodes |-> [p \in Nodes |-> 0]]
    /\ routed = [n \in Nodes |-> NoRoutes]
    /\ ask = AskIdle
    /\ alloc = [n \in Nodes |-> NoAlloc]
    /\ app = [n \in Nodes |-> IF n \in Pair THEN AppIdle ELSE AppOff]
    /\ env = [frames |-> 0, calls |-> 0]
    /\ codec = CodecIdle
    /\ peers = [n \in Nodes |-> [p \in Nodes |->
                    CASE n = "n1" /\ p = "n2" -> Peer("n2", bind_address("n2"), bind_port("n2"), NoTime)
                      [] n = "n1" /\ p = "n3" -> Peer("n3", NULL, NoTime, NoTime)
                      [] n = "n2" /\ p = "n3" -> Linked("n3")
                      [] n = "n3" /\ p = "n2" -> Linked("n2")
                      [] OTHER -> NoPeer]]

\* The steps of n1 and n2 until both are at rest, within one step of the
\* clock. What n3 does with what n2 sends it is left out: the reply n1
\* waits for would be composed by n2, from its own record of n3.
NextRelay ==
    \/ \E n \in Pair : AppTurn(n)
    \/ \E n \in Pair : SndWorker(n)
    \/ \E n \in Pair : Receive(n)

\* The nodes go on for as long as one of them has a step to take. No run of
\* NextRelay goes round in a circle (a pass of the app loop needs a message
\* to have come), so that this is every worker taking its steps.
SpecRelay ==
    /\ InitRelay
    /\ [][NextRelay]_vars
    /\ WF_vars(NextRelay)

\* n1 holds the bare record of n3 it was given, untouched.
BareRecordKept == peers["n1"]["n3"] = Peer("n3", NULL, NoTime, NoTime)

\* n1 and n2, and n2 and n3, see each other connected.
RelayLinked ==
    /\ StateOf("n1", "n2") = CONNECTED /\ StateOf("n2", "n1") = CONNECTED
    /\ StateOf("n2", "n3") = CONNECTED /\ StateOf("n3", "n2") = CONNECTED

ViaFrames ==
    { <<"n2", "n2", MESSAGE_TYPE_REQUEST, CMD_HELLO>>,
      <<"n2", "n3", MESSAGE_TYPE_REQUEST, CMD_HB>>,
      <<"n3", "n3", MESSAGE_TYPE_REQUEST, CMD_HB>> }

\* The node is n1; n3 reaches it through n2 at one time and directly at
\* another.
NextVia ==
    \/ AppWorker("n1")
    \/ SndWorker("n1")
    \/ Receive("n1")
    \/ \E p \in {"n2", "n3"} : EnvAddPeer("n1", p)
    \/ \E f \in ViaFrames : EnvFrame("n1", f[1], f[2], f[3], f[4], TRUE)
    \/ TickCalm(MaxTicks * ClockStep)

SpecVia == InitOne /\ [][NextVia]_vars

\* C15: in every reachable state, a peer in state CONNECTED has no relay
\* (via is None) and a peer in state ROUTED has one (via is not None).
C15_ViaGoesWithState ==
    \A n \in Nodes : \A p \in Nodes :
        peers[n][p] # NoPeer =>
            /\ peers[n][p].conn_state = CONNECTED => peers[n][p].via = NULL
            /\ peers[n][p].conn_state = ROUTED => peers[n][p].via # NULL

\* A node holds a routed peer and, connected, the peer that relays for it.
C15_Witness ==
    \E n \in Nodes : \E p, r \in Nodes :
        /\ peers[n][p] # NoPeer /\ peers[n][r] # NoPeer
        /\ peers[n][p].conn_state = ROUTED /\ peers[n][p].via = r
        /\ peers[n][r].conn_state = CONNECTED /\ peers[n][r].via = NULL
        /\ peers[n][r].last_heart_beat_time # NoTime

(***************************************************************************)
(* C16: the back-off of the heart-beat                                     *)
(***************************************************************************)

\* The steps of the clock a run of n1 among mute peers goes on for: long
\* enough for the reconnect attempts to take the back-off to its cap.
MaxSlowTicks == 240

\* n1 and the mute peers it is told of, for as long as the back-off takes
\* to grow.
NextSlow ==
    \/ MuteApp("n1")
    \/ SndWorker("n1")
    \/ \E p \in {"n2", "n3"} : MuteAdd(p)
    \/ TickCalm(MaxSlowTicks * ClockStep)

SpecSlow == InitMute /\ [][NextSlow]_vars

MaxSyncs == 8

\* The steps of the clock a run of the store goes on for: past the second
\* sync that falls due.
MaxSyncTicks == 8

\* The database a run of the node some time ago has left behind: the
\* peers table with a row for n3.
OldDb ==
    [StartedDb(0) EXCEPT !.rows["n3"] =
        [peer_id |-> 1, host |-> bind_address("n3"), port |-> bind_port("n3")]]

\* n1 has been built (LocalPeer.__init__) and not yet created; its
\* database file is new, or one an earlier run has left.
InitSync ==
    /\ now = 0
    /\ next_message_id = [n \in Nodes |-> 0]
    /\ tick = [n \in Nodes |-> 0]
    /\ connection_queue = [n \in Nodes |-> <<>>]
    /\ out_queues = [n \in Nodes |-> EmptyResults]
    /\ typed_queues = [n \in Nodes |-> [k \in Kinds |-> <<>>]]
    /\ wire = [n \in Nodes |-> <<>>]
    /\ snd = [n \in Nodes |-> SndIdle]
    /\ seen = [n \in Nodes |-> NothingSeen]
    /\ peers = [n \in Nodes |-> [p \in Nodes |-> NoPeer]]
    /\ app = [n \in Nodes |-> AppOff]
    /\ env = [frames |-> 0, calls |-> MaxCalls + 1]
    /\ codec = CodecIdle
    /\ \E store \in {FreshDb(0), OldDb} :
          db = [n \in Nodes |-> IF n = "n1" THEN store ELSE FreshDb(0)]
    /\ life = [n \in Nodes |-> NewLife]
    /\ registry = [n \in Nodes |-> NewRegistry]
    /\ links = [n \in Nodes |-> [p \in Nodes |-> 0]]
    /\ routed = [n \in Nodes |-> NoRoutes]
    /\ ask = AskIdle
    /\ alloc = [n \in Nodes |-> NoAlloc]

\* PeerStore.add_peer, called by the application before or after create().
StoreAddPeer(n, p) ==
    /\ p # n
    /\ peers[n][p] = NoPeer
    /\ env.calls > 0
    /\ env' = [env EXCEPT !.calls = @ - 1]
    /\ peers' = [peers EXCEPT ![n][p] = Peer(p, bind_address(p), bind_port(p), NoTime)]
    /\ UNCHANGED <<now, tick, next_message_id, connection_queue, out_queues,
                   typed_queues, wire, app, snd, seen, codec, db, life, registry, links, routed, ask, alloc>>

\* A call of sync_database of node n leaves what `synced` says; an
\* exception leaves the thread that made the call.
SyncCommit(n, synced) ==
    /\ peers' = [peers EXCEPT ![n] = synced.peers]
    /\ db' = [db EXCEPT ![n] = [synced.db EXCEPT !.syncs = @ + 1]]

\* LocalPeer.create, up to start_db: the forced sync.
StartDb(n) ==
    /\ app[n].pc = "off"
    /\ LET synced == sync_database(peers[n], db[n], now, TRUE)
       IN /\ SyncCommit(n, synced)
          /\ app' = [app EXCEPT ![n] =
                        IF synced.exc = NULL THEN AppIdle ELSE AppRaised(synced.exc, 0)]
    /\ tick' = [tick EXCEPT ![n] = now]
    /\ UNCHANGED <<now, next_message_id, connection_queue, out_queues,
                   typed_queues, wire, snd, seen, env, codec, life, registry, links, routed, ask, alloc>>

\* LocalPeer.execute begins: the loop has read the clock and execute
\* calls sync_database(). (The rest of the pass does not look at the
\* database and is left out of this run.)
SyncDatabase(n) ==
    /\ app[n].pc = "idle"
    /\ db[n].syncs < MaxSyncs
    /\ LET synced == sync_database(peers[n], db[n], now, FALSE)
       IN /\ SyncCommit(n, synced)
          /\ app' = [app EXCEPT ![n] =
                        IF synced.exc = NULL THEN @ ELSE AppRaised(synced.exc, 0)]
    /\ tick' = [tick EXCEPT ![n] = now]
    /\ UNCHANGED <<now, next_message_id, connection_queue, out_queues,
                   typed_queues, wire, snd, seen, env, codec, life, registry, links, routed, ask, alloc>>

NextSync ==
    \/ StartDb("n1")
    \/ SyncDatabase("n1")
    \/ \E p \in {"n2", "n3"} : StoreAddPeer("n1", p)
    \/ \E p \in {"n2", "n3"} : EnvTakePeer("n1", p)
    \/ Tick(MaxSyncTicks * ClockStep)

SpecSync == InitSync /\ [][NextSync]_vars

\* A step is a call of sync_database of node n.
SyncCall(n) == db'[n].syncs # db[n].syncs

\* What the specification says a sync that is due or forced does.
Reconciled(n) ==
    /\ \A p \in Nodes :
          LET before == peers[n][p]
              after == peers'[n][p]
              row == db[n].rows[p]
              row_after == db'[n].rows[p]
          IN /\ (before = NoPeer /\ row # NoRow) =>
                    /\ after = Peer(p, row.host, row.port, row.peer_id)
                    /\ row_after = row
             /\ (before # NoPeer /\ row = NoRow) =>
                    /\ row_after # NoRow
                    /\ row_after.host = before.host /\ row_after.port = before.port
                    /\ after = [before EXCEPT !.db_id = row_after.peer_id]
                    /\ after.db_id # NoTime
             /\ (before # NoPeer /\ row # NoRow) => (after = before /\ row_after = row)
             /\ (before = NoPeer /\ row = NoRow) => (after = NoPeer /\ row_after = NoRow)
    /\ InMemory(peers'[n]) = InStorage(db'[n].rows)
    /\ db'[n].next_peer_db_sync_time = now + SYNC_DB_INTERVAL

\* C17: a call of sync_database that is due (next_peer_db_sync_time is not
\* after the clock) or forced (the call of start_db) adds to memory the
\* peers only in storage, inserts the peers only in memory and gives them a
\* db_id, leaves the others alone, so that memory and storage hold the same
\* uuids, and sets the next sync to now + SYNC_DB_INTERVAL; a call that is
\* neither due nor forced changes neither memory nor storage.
C17_SyncReconciles ==
    [][\A n \in Nodes : SyncCall(n) =>
          IF db[n].next_peer_db_sync_time <= now \/ app[n].pc = "off"
          THEN Reconciled(n)
          ELSE /\ peers'[n] = peers[n]
               /\ db'[n] = [db[n] EXCEPT !.syncs = @ + 1]]_vars

\* The same for the calls that find the peers table in the database.
SyncReconcilesOnceTableExists ==
    [][\A n \in Nodes : SyncCall(n) =>
          IF db[n].next_peer_db_sync_time <= now \/ app[n].pc = "off"
          THEN db[n].table => Reconciled(n)
          ELSE /\ peers'[n] = peers[n]
               /\ db'[n] = [db[n] EXCEPT !.syncs = @ + 1]]_vars

\* C18: a peer leaves the peers dictionary of a node only in a call of
\* take_peer, and once the node is created (the rows of the database are
\* all in memory, so that a peer that is absent and has a row is one
\* take_peer has removed) a peer that is absent comes to be in the
\* dictionary only in a call of add_peer or when a connect request from it
\* is handled: never in a sync.
C18_OnlyTheCallerRemoves ==
    [][\A n \in Nodes : \A p \in Nodes :
          /\ (peers[n][p] # NoPeer /\ peers'[n][p] = NoPeer) => env'.calls < env.calls
          /\ (Started(n) /\ peers[n][p] = NoPeer /\ peers'[n][p] # NoPeer) =>
                \/ env'.calls < env.calls
                \/ /\ app'[n].cur # NoMessage
                   /\ app'[n].cur.command = CMD_HELLO
                   /\ app'[n].cur.source = p]_vars

\* A peer leaves the peers dictionary of a node only in a call of
\* take_peer.
OnlyTakePeerRemoves ==
    [][\A n \in Nodes : \A p \in Nodes :
          (peers[n][p] # NoPeer /\ peers'[n][p] = NoPeer) => env'.calls < env.calls]_vars

(***************************************************************************)
(* C19: the order of shutdown                                              *)
(***************************************************************************)

\* What a step of the life of node n leaves behind.
LifeStep(n, after) ==
    /\ life' = [life EXCEPT ![n] = after]
    /\ registry' = [registry EXCEPT ![n] =
                       IF after.opened # life[n].opened /\ after.opened[Len(after.opened)] = "concerns"
                       THEN start_concerns(@)
                       ELSE IF after.closed # life[n].closed /\ after.closed[Len(after.closed)] = "concerns"
                       THEN terminate_concerns(@)
                       ELSE @]
    /\ UNCHANGED <<now, next_message_id, nodeVars, env, codec, db, links, routed, ask, alloc>>

\* LocalPeer.create, one call: start_db, prepare_cert_store, start_auth,
\* start_concerns, receiver.start(), sender.start(). A worker that is
\* started opens its socket and enters its loop.
CreateStep(n) ==
    /\ life[n].pc \in {"new", "creating"}
    /\ LET k == life[n].k + 1
           what == CreateSteps[k]
           opened == [life[n] EXCEPT !.k = IF k = Len(CreateSteps) THEN 0 ELSE k,
                                     !.pc = IF k = Len(CreateSteps) THEN "running" ELSE "creating",
                                     !.opened = Append(@, what)]
       IN LifeStep(n, IF what \in Workers
                      THEN [opened EXCEPT !.worker[what] = "top", !.socket[what] = "socket"]
                      ELSE opened)

\* The application sets the stop flag of the app thread (app.stop.set());
\* the loop of the thread ends and calls terminate.
AppStop(n) ==
    /\ life[n].pc = "running"
    /\ LifeStep(n, [life[n] EXCEPT !.pc = "terminating", !.k = 0])

\* A worker finds its stop flag clear at the top of its loop and begins a
\* pass.
WorkerBegin(n, w) ==
    /\ life[n].worker[w] = "top"
    /\ ~life[n].stop[w]
    /\ LifeStep(n, [life[n] EXCEPT !.worker[w] = "loop"])

\* The pass of the worker ends.
WorkerEnd(n, w) ==
    /\ life[n].worker[w] = "loop"
    /\ LifeStep(n, [life[n] EXCEPT !.worker[w] = "top"])

\* A worker finds its stop flag set at the top of its loop: it closes its
\* socket, sets the handle to None and its thread ends.
WorkerExit(n, w) ==
    /\ life[n].worker[w] = "top"
    /\ life[n].stop[w]
    /\ LifeStep(n, [life[n] EXCEPT !.worker[w] = "exited", !.socket[w] = NULL])

\* The worker a step of terminate is about.
WorkerOf(step) == IF step \in {"stop_receiver", "join_receiver"} THEN "receiver" ELSE "sender"

\* LocalPeer.terminate, one call: stop.set() of a worker, join() of a
\* worker with the assertion on its socket, terminate_concerns,
\* terminate_auth, terminate_db.
TerminateStep(n) ==
    /\ life[n].pc = "terminating"
    /\ LET k == life[n].k + 1
           what == TerminateSteps[k]
           w == WorkerOf(what)
           on == [life[n] EXCEPT !.k = k,
                                 !.pc = IF k = Len(TerminateSteps) THEN "done" ELSE @]
       IN IF what \in {"stop_receiver", "stop_sender"}
          THEN LifeStep(n, [on EXCEPT !.stop[w] = TRUE])
          ELSE IF what \in {"join_receiver", "join_sender"}
          THEN /\ life[n].worker[w] = "exited"
               /\ LifeStep(n, IF life[n].socket[w] = NULL
                              THEN [on EXCEPT !.joined = Append(@, w)]
                              ELSE [on EXCEPT !.pc = "raised"])
          ELSE LifeStep(n, [on EXCEPT !.closed = Append(@, what)])

\* Two nodes are built, created, run and are stopped.
InitLife == InitSync /\ db["n1"] = FreshDb(0)

NextLife ==
    \/ \E n \in Pair : CreateStep(n)
    \/ \E n \in Pair : AppStop(n)
    \/ \E n \in Pair : \E w \in Workers : WorkerBegin(n, w)
    \/ \E n \in Pair : \E w \in Workers : WorkerEnd(n, w)
    \/ \E n \in Pair : \E w \in Workers : WorkerExit(n, w)
    \/ \E n \in Pair : TerminateStep(n)

SpecLife == InitLife /\ [][NextLife]_vars

\* The place of x in the sequence s (0 when it is not there).
PlaceIn(s, x) == IF \E i \in 1..Len(s) : s[i] = x
                 THEN CHOOSE i \in 1..Len(s) : s[i] = x
                 ELSE 0

\* C19: in every reachable state of a node, a worker is joined only after
\* the stop flags of both workers are set; handlers, authentication and
\* database are shut down only after both workers are joined, and in the
\* reverse of the order in which create() opened them; when terminate is
\* done all three are shut down; and a worker that has exited has no
\* socket.
C19_ShutdownOrder ==
    \A n \in Nodes :
        LET l == life[n]
        IN /\ l.joined # <<>> => \A w \in Workers : l.stop[w]
           /\ l.closed # <<>> =>
                 /\ {l.joined[i] : i \in 1..Len(l.joined)} = Workers
                 /\ \A w \in Workers : l.worker[w] = "exited"
           /\ \A i, j \in 1..Len(l.closed) :
                 i < j => PlaceIn(l.opened, l.closed[i]) > PlaceIn(l.opened, l.closed[j])
           /\ \A i \in 1..Len(l.closed) : PlaceIn(l.opened, l.closed[i]) > 0
           /\ l.pc = "done" => Len(l.closed) = 3
           /\ \A w \in Workers : l.worker[w] = "exited" => l.socket[w] = NULL

\* A node is through with terminate: both workers were joined and the
\* handlers, the authentication and the database are shut down.
C19_Witness ==
    /\ life["n1"].pc = "done"
    /\ life["n1"].opened = CreateSteps
    /\ life["n1"].joined = <<"receiver", "sender">>
    /\ life["n1"].closed = <<"concerns", "auth", "db">>
    /\ \A w \in Workers : life["n1"].socket[w] = NULL

(***************************************************************************)
(* One node whose application's handler is interrupted                     *)
(***************************************************************************)
\* What process_common re-raises instead of logging.
Interrupts == {"KeyboardInterrupt", "SystemExit"}

\* The handler of the application's concern raises what the payload of
\* the message names.
Interrupting(message) == "raises" \in DOMAIN message.payload

\* A dispatcher that treats an interrupt as it treats an Exception: it
\* logs it and goes on with the next message.
InterruptAbsorbed(a, exc) == Continue(a, TRUE, <<>>)

\* process_common, `except (KeyboardInterrupt, SystemExit): raise`: the
\* exception leaves process_common and LocalPeer.execute, and with it the
\* rest of the list and the results.
InterruptLeaves(a, exc) == AppRaised(exc, Len(Tail(a.batch)))

\* process_common: a message of the application's concern, whose handler
\* raises KeyboardInterrupt or SystemExit.
AppUserInterrupted(n) ==
    /\ AtMessage(n)
    /\ Current(n).command = CMD_APP
    /\ Interrupting(Current(n))
    /\ app' = [app EXCEPT ![n] = InterruptLeaves(@, Current(n).payload.raises)]
    /\ UNCHANGED <<now, tick, next_message_id, peers, connection_queue,
                   out_queues, typed_queues, wire, snd, seen, env, codec, db, life, registry, links, routed, ask, alloc>>

\* A remote peer sends a message of the application's command whose
\* handling is interrupted at n.
EnvStopFrame(n, hop, kind, exc) ==
    /\ Started(n)
    /\ ~Started(hop)
    /\ Inbound(n) < MaxInbound
    /\ env.frames > 0
    /\ env' = [env EXCEPT !.frames = @ - 1]
    /\ LET made == MessageInit(hop, n, NULL, n, CMD_APP, kind, CMD_APP, 1,
                               DEFAULT_TIME_TO_LIVE, [raises |-> exc], now, 0)
       IN wire' = Carry(wire, encode(made.msg, hop), hop)
    /\ UNCHANGED <<now, tick, next_message_id, peers, connection_queue,
                   out_queues, typed_queues, app, snd, seen, codec, db, life, registry, links, routed, ask, alloc>>

\* The node is n1; n2 sends it messages of the application's command,
\* some of which interrupt the handler. The app thread does not go on
\* after an interrupt.
NextStop ==
    \/ AppConcerns("n1")
    \/ AppDequeue("n1")
    \/ AppDispatchUnknown("n1")
    \/ AppDispatchUser("n1") /\ ~Interrupting(Current("n1"))
    \/ AppUserRaises("n1") /\ ~Interrupting(Current("n1"))
    \/ AppUserInterrupted("n1")
    \/ AppEnqueueAll("n1")
    \/ SndBegin("n1")
    \/ SndConnectDone("n1")
    \/ SndDequeue("n1")
    \/ SndSendOk("n1")
    \/ Receive("n1")
    \/ \E f \in DispatchFrames : EnvFrame("n1", "n2", "n2", f[1], f[2], TRUE)
    \/ \E k \in {MESSAGE_TYPE_REQUEST, MESSAGE_TYPE_REPLY}, exc \in Interrupts :
          EnvStopFrame("n1", "n2", k, exc)

SpecStop == InitOne /\ [][NextStop]_vars

\* C20: when the handler of the message at hand raises KeyboardInterrupt
\* or SystemExit, the dispatcher does not absorb it: the pass of the app
\* loop ends with that exception, none of the messages behind it in the
\* list is handed to a handler, nothing of the pass is enqueued, and the
\* messages still in the queues stay there.
C20_InterruptLeavesThePass ==
    /\ [][\A n \in Nodes :
            (AtMessage(n) /\ Interrupting(Current(n)) /\ app'[n] # app[n])
            => /\ app'[n].pc = "raised"
               /\ app'[n].exc = Current(n).payload.raises
               /\ app'[n].batch = <<>>
               /\ app'[n].skipped = Len(app[n].batch) - 1
               /\ out_queues'[n] = out_queues[n]
               /\ typed_queues'[n] = typed_queues[n]]_vars
    /\ [](\A n \in Nodes :
            app[n].exc \in Interrupts => app[n].pc = "raised" /\ app[n].batch = <<>>)

\* An interrupt has left the pass with messages behind it undispatched.
C20_Witness ==
    /\ app["n1"].pc = "raised"
    /\ app["n1"].exc \in Interrupts
    /\ app["n1"].skipped > 0

(***************************************************************************)
(* One node that is sent malformed frames                                  *)
(***************************************************************************)
\* The part counts of the frames a remote peer sends: one part short, as
\* Message.encode makes them, and one part too many.
FrameSizes == {6, 7, 8}

\* A remote peer sends node n a frame of `size` parts: the frame
\* Message.encode makes of a request or a reply, cut or extended.
EnvSizedFrame(n, hop, kind, cmd, size) ==
    /\ Started(n)
    /\ ~Started(hop)
    /\ Inbound(n) < MaxInbound
    /\ env.frames > 0
    /\ env' = [env EXCEPT !.frames = @ - 1]
    /\ LET made == MessageInit(hop, n, NULL, n, cmd, kind, cmd, 1, DEFAULT_TIME_TO_LIVE,
                               RemotePayload(hop, cmd, TRUE), now, 0)
           whole == encode(made.msg, hop) \o <<EMPTY>>
       IN wire' = Carry(wire, SubSeq(whole, 1, size), hop)
    /\ UNCHANGED <<now, tick, next_message_id, peers, connection_queue,
                   out_queues, typed_queues, app, snd, seen, codec, db, life, registry, links, routed, ask, alloc>>

\* The node is n1, and only its receiver is looked at; n2 sends it whole
\* and malformed frames of the three kinds.
NextMalformed ==
    \/ Receive("n1")
    \/ \E k \in Kinds, c \in {CMD_HELLO, CMD_HB}, size \in FrameSizes :
          EnvSizedFrame("n1", "n2", k, c, size)

SpecMalformed == InitOne /\ [][NextMalformed]_vars

\* The frame the receiver of a node takes next is malformed.
MalformedNext(n) == wire[n] # <<>> /\ Len(Head(wire[n])) # 7

\* C21: a frame that has not 7 parts decodes to None; when the receiver
\* takes it, no message is created (the id counter stands), the three
\* inbound queues are as they were, and the receiver goes on running.
C21_MalformedIsDropped ==
    [][\A n \in Nodes :
          (MalformedNext(n) /\ wire'[n] = Tail(wire[n]))
          => /\ parse(Head(wire[n]), n, now, next_message_id[n]).msg = NoMessage
             /\ typed_queues'[n] = typed_queues[n]
             /\ next_message_id'[n] = next_message_id[n]
             /\ app'[n].pc # "off"
             /\ life'[n] = life[n]]_vars

\* Of two frames sent, the receiver has dropped one and queued the other.
C21_Witness ==
    /\ env.frames = MaxFrames - 2
    /\ wire["n1"] = <<>>
    /\ Inbound("n1") = 1

(***************************************************************************)
(* One node whose application fills, starts and stops its registry         *)
(***************************************************************************)
\* A call into the registry of node n: what it leaves behind.
RegistryCall(n, call, after) ==
    /\ registry' = [registry EXCEPT ![n] =
                       [after EXCEPT !.call = call, !.calls = registry[n].calls + 1]]
    /\ UNCHANGED <<now, next_message_id, nodeVars, env, codec, db, life, links, routed, ask, alloc>>

\* The application calls add_concern with a concern object that is not in
\* the registry.
AddConcern(n, h) ==
    /\ registry[n].calls < MaxRegistryCalls
    /\ h \notin registry[n].concerns
    /\ RegistryCall(n, <<"add", h>>, add_concern(registry[n], h))

\* start_concerns is called, by LocalPeer.create or by the application.
StartConcerns(n) ==
    /\ registry[n].calls < MaxRegistryCalls
    /\ RegistryCall(n, <<"start">>, start_concerns(registry[n]))

\* terminate_concerns is called, by LocalPeer.terminate or by the
\* application.
TerminateConcerns(n) ==
    /\ registry[n].calls < MaxRegistryCalls
    /\ RegistryCall(n, <<"terminate">>, terminate_concerns(registry[n]))

NextRegistry ==
    \/ \E h \in Handlers : AddConcern("n1", h)
    \/ StartConcerns("n1")
    \/ TerminateConcerns("n1")

SpecRegistry == InitLife /\ [][NextRegistry]_vars

\* The step is a call `call` into the registry of node n.
Calls(n, call) == registry'[n].calls = registry[n].calls + 1 /\ registry'[n].call = call

\* C22: add_concern with a concern whose command is already registered
\* fails the assertion and leaves the registry as it was: the concern
\* registered earlier stays, the new one is neither stored nor started.
\* In every reachable state the registry holds at most one concern for a
\* command.
C22_AddAssertsUnique ==
    /\ [][\A n \in Nodes : \A h \in Handlers :
            (Calls(n, <<"add", h>>) /\ Under(registry[n], h) # {})
            => /\ registry'[n].exc = "AssertionError"
               /\ registry'[n].concerns = registry[n].concerns
               /\ registry'[n].concerns_started = registry[n].concerns_started
               /\ registry'[n].start = registry[n].start]_vars
    /\ [](\A n \in Nodes : \A g, h \in registry[n].concerns :
            CommandOf(g) = CommandOf(h) => g = h)

\* A started registry has refused a second concern for a command.
C22_Witness ==
    /\ registry["n1"].exc = "AssertionError"
    /\ registry["n1"].concerns_started
    /\ registry["n1"].call[2] \notin registry["n1"].concerns
    /\ registry["n1"].start[registry["n1"].call[2]] = 0
    /\ Under(registry["n1"], registry["n1"].call[2]) # {}

\* C23: a call of start_concerns that follows a call of start_concerns,
\* and a call of terminate_concerns that follows a call of
\* terminate_concerns, leave the registry and every concern as they were.
C23_StartStopIdempotent ==
    [][\A n \in Nodes : \A op \in {<<"start">>, <<"terminate">>} :
          (registry[n].call = op /\ Calls(n, op))
          => /\ registry'[n].concerns = registry[n].concerns
             /\ registry'[n].concerns_started = registry[n].concerns_started
             /\ registry'[n].start = registry[n].start
             /\ registry'[n].terminate = registry[n].terminate]_vars

\* The part of C23 that holds: the second call changes neither the set of
\* registered concerns nor concerns_started.
RegistryKeptBySecondCall ==
    [][\A n \in Nodes : \A op \in {<<"start">>, <<"terminate">>} :
          (registry[n].call = op /\ Calls(n, op))
          => /\ registry'[n].concerns = registry[n].concerns
             /\ registry'[n].concerns_started = registry[n].concerns_started]_vars

(***************************************************************************)
(* C24: what a connect message does to the peer it is from                 *)
(***************************************************************************)
\* The step ends the connect handler of node n (process_request or
\* process_reply returns for the message at hand).
HelloHandled(n) == app[n].cur # NoMessage /\ app'[n].cur = NoMessage

\* The peer p is as Peer.become_connected leaves it for message m at tick
\* t, with the address of the payload.
ConnectedBy(p, m, t) ==
    /\ p # NoPeer
    /\ p.conn_state = IF m.source = m.previous_hop THEN CONNECTED ELSE ROUTED
    /\ p.via = IF m.source = m.previous_hop THEN NULL ELSE m.previous_hop
    /\ p.last_heart_beat_time = t
    /\ p.next_heart_beat_time = t + HEART_BEAT_INTERVAL
    /\ p.slow_heart_beat_down = 0
    /\ p.host = m.payload.host
    /\ p.port = m.payload.port

\* C24: after the connector has processed a connect request or a connect
\* reply from peer P, P is CONNECTED with no via when the message came
\* straight from P and ROUTED via the previous hop otherwise, its
\* heart-beat is reset and its address is that of the payload, whatever
\* state P was in.
C24_ConnectMessageConnects ==
    [][\A n \in Nodes :
          HelloHandled(n)
          => ConnectedBy(peers'[n][app[n].cur.source], app[n].cur, tick[n])]_vars

\* The part of C24 that holds: a connect reply, and a connect request from
\* a peer that is CONNECTING, CONNECTED or ROUTED, leave the peer so.
ConnectMessageConnectsThePeerInContact ==
    [][\A n \in Nodes :
          (/\ HelloHandled(n)
           /\ \/ app[n].pc = "replies"
              \/ ~needs_reconnect(peers[n][app[n].cur.source]))
          => ConnectedBy(peers'[n][app[n].cur.source], app[n].cur, tick[n])]_vars

\* A connect request from a peer that needs a reconnect leaves the peer
\* in the state it was in.
RequestLeavesStateOfPeerToReconnect ==
    [][\A n \in Nodes :
          (/\ HelloHandled(n)
           /\ app[n].pc # "replies"
           /\ needs_reconnect(peers[n][app[n].cur.source]))
          => peers'[n][app[n].cur.source].conn_state
                = peers[n][app[n].cur.source].conn_state]_vars

(***************************************************************************)
(* C25: the way into CONNECTING                                            *)
(***************************************************************************)
\* C25: a peer enters CONNECTING only from INITIAL or NO_CONNECTION; one
\* that is CONNECTED or ROUTED is never moved back to CONNECTING, however
\* the steps of the app worker and of the sender interleave.
C25_ConnectingOnlyFromUnconnected ==
    [][\A n \in Nodes : \A p \in Nodes :
          (/\ peers[n][p] # NoPeer
           /\ peers'[n][p] # NoPeer
           /\ peers[n][p].conn_state # CONNECTING
           /\ peers'[n][p].conn_state = CONNECTING)
          => peers[n][p].conn_state \in {INITIAL, NO_CONNECTION}]_vars

(***************************************************************************)
(* One node that watches a peer for a long time                            *)
(***************************************************************************)
\* The steps of the clock in a run in which a peer is connected, falls
\* silent, is given up and is tried again.
MaxWatchTicks == 18

\* What n2 sends to n1: its connect reply, and the connect reply of n3
\* that it relays.
WatchFrames ==
    { <<"n2", MESSAGE_TYPE_REPLY, CMD_HELLO>>,
      <<"n3", MESSAGE_TYPE_REPLY, CMD_HELLO>> }

\* The node is n1; it is told of n2 and n3 as the run begins. What it
\* sends is taken; n2 answers a connect request now and then, and relays
\* an answer of n3, which n1 cannot reach. Nothing answers the
\* heart-beats.
NextWatch ==
    \/ AppConcerns("n1")
    \/ AppDequeue("n1")
    \/ AppHelloLookup("n1")
    \/ AppHelloUpdate("n1")
    \/ AppEnqueueAll("n1")
    \/ SndWorker("n1")
    \/ Receive("n1")
    \/ \E p \in {"n2", "n3"} : MuteAdd(p)
    \/ \E f \in WatchFrames : EnvFrame("n1", "n2", f[1], f[2], f[3], TRUE)
    \/ TickCalm(MaxWatchTicks * ClockStep)

SpecWatch == InitOne /\ [][NextWatch]_vars

(***************************************************************************)
(* One node whose silent peer knocks again                                 *)
(***************************************************************************)
\* The steps of the clock in a run in which a peer is connected, falls
\* silent and sends a connect request.
MaxKnockTicks == 8

\* The node is n1; it may be told of n2 as the run begins. n2 answers a
\* connect request or sends one of its own now and then, and answers no
\* heart-beat.
NextKnock ==
    \/ AppConcerns("n1")
    \/ AppDequeue("n1")
    \/ AppHelloLookup("n1")
    \/ AppHelloUpdate("n1")
    \/ AppEnqueueAll("n1")
    \/ SndWorker("n1")
    \/ Receive("n1")
    \/ MuteAdd("n2")
    \/ \E k \in {MESSAGE_TYPE_REQUEST, MESSAGE_TYPE_REPLY} :
          EnvFrame("n1", "n2", "n2", k, CMD_HELLO, TRUE)
    \/ TickCalm(MaxKnockTicks * ClockStep)

SpecKnock == InitOne /\ [][NextKnock]_vars

(***************************************************************************)
(* C26: the connect request of a peer that needs a reconnect               *)
(***************************************************************************)
\* The step ends process_request of the connector of node n for a request
\* from a peer that needs_reconnect.
RequestFromPeerToReconnect(n) ==
    /\ HelloHandled(n)
    /\ app[n].pc # "replies"
    /\ needs_reconnect(peers[n][app[n].cur.source])

\* The handler of node n has returned, at priority FAST, the reply that
\* carries the address of n.
RepliedFast(n) ==
    LET before == app[n].results[SPEED_FAST]
        after == app'[n].results[SPEED_FAST]
    IN /\ Len(after) = Len(before) + 1
       /\ after[Len(after)].to = app[n].cur.source
       /\ after[Len(after)].command = CMD_HELLO
       /\ after[Len(after)].kind = MESSAGE_TYPE_REPLY
       /\ after[Len(after)].payload = [host |-> bind_address(n), port |-> bind_port(n)]

\* The connector of node n has put one connect message for peer p on the
\* connection queue.
ConnectQueued(n, p) ==
    LET after == connection_queue'[n]
    IN /\ Len(after) = Len(connection_queue[n]) + 1
       /\ after[Len(after)].peer = p
       /\ after[Len(after)].message.command = CMD_HELLO
       /\ after[Len(after)].message.kind = MESSAGE_TYPE_REQUEST
       /\ after[Len(after)].message.to = p

\* C26: when the connector handles a connect request from a peer that
\* needs_reconnect, it puts its own connect message for the peer on the
\* connection queue and returns the reply with the local address at
\* priority FAST.
C26_RequestAlsoConnects ==
    [][\A n \in Nodes :
          RequestFromPeerToReconnect(n)
          => ConnectQueued(n, app[n].cur.source) /\ RepliedFast(n)]_vars

\* The part of C26 that holds: the reply is returned in every case, and
\* the connect message is queued for a peer whose timer was never set.
RequestConnectsThePeerNeverTried ==
    [][\A n \in Nodes :
          RequestFromPeerToReconnect(n)
          => /\ RepliedFast(n)
             /\ peers[n][app[n].cur.source].next_heart_beat_time = NoTime
                => ConnectQueued(n, app[n].cur.source)]_vars

\* The case of C26 that fails whatever is pending: a connect request from
\* a peer that is NO_CONNECTION or UNREACHABLE queues a connect message
\* (violated under SpecKnock).
RequestConnectsThePeerLost ==
    [][\A n \in Nodes :
          (/\ RequestFromPeerToReconnect(n)
           /\ peers[n][app[n].cur.source].conn_state \in {NO_CONNECTION, UNREACHABLE})
          => ConnectQueued(n, app[n].cur.source)]_vars

(***************************************************************************)
(* C27: the heart-beat tick                                                *)
(***************************************************************************)
\* The step begins a pass of the app worker of node n: execute_concerns
\* runs, with app.tick set to the clock.
PassBegins(n) == app[n].pc = "idle" /\ app'[n].pc = "requests"

\* The heart-beat requests for peer p that the step puts on the fast
\* queue of node n: their places in the queue.
BeatsFor(n, p) ==
    {k \in (Len(out_queues[n][SPEED_FAST]) + 1)..Len(out_queues'[n][SPEED_FAST]) :
        /\ out_queues'[n][SPEED_FAST][k].to = p
        /\ out_queues'[n][SPEED_FAST][k].command = CMD_HB
        /\ out_queues'[n][SPEED_FAST][k].kind = MESSAGE_TYPE_REQUEST}

\* The heart-beat of peer p at node n is due at the clock.
BeatDue(n, p) ==
    /\ peers[n][p] # NoPeer
    /\ does_heart_beat(peers[n][p])
    /\ peers[n][p].next_heart_beat_time <= now

\* C27: in a pass of the app worker, a peer that heart-beats and whose
\* next_heart_beat_time is not after the tick becomes NO_CONNECTION,
\* with no heart-beat, when it was last heard more than
\* NO_CONNECTION_THRESHOLD ago; otherwise one heart-beat request for it
\* goes on the fast queue (next_hop the peer when it is CONNECTED, else
\* its via), it becomes UNREACHABLE exactly when it was last heard more
\* than UNRESPONSIVE_THRESHOLD ago, its next heart-beat is at tick +
\* HEART_BEAT_INTERVAL + the back-off it had, and the back-off grows by
\* HEART_BEAT_SLOW_DOWN up to the cap. A peer whose heart-beat is not due
\* gets none, and is left as it is when it heart-beats.
C27_HeartBeatTick ==
    [][\A n \in Nodes : \A p \in Nodes :
          (PassBegins(n) /\ peers[n][p] # NoPeer)
          => LET peer == peers[n][p]
                 after == peers'[n][p]
                 beats == BeatsFor(n, p)
             IN IF ~BeatDue(n, p)
                THEN /\ beats = {}
                     /\ does_heart_beat(peer) => after = peer
                ELSE IF peer.last_heart_beat_time + NO_CONNECTION_THRESHOLD < now
                THEN /\ beats = {}
                     /\ after.conn_state = NO_CONNECTION
                ELSE /\ Cardinality(beats) = 1
                     /\ \A k \in beats :
                           out_queues'[n][SPEED_FAST][k].next_hop =
                              IF after.conn_state = CONNECTED THEN p ELSE peer.via
                     /\ after.conn_state =
                           IF peer.last_heart_beat_time + UNRESPONSIVE_THRESHOLD < now
                           THEN UNREACHABLE ELSE peer.conn_state
                     /\ after.next_heart_beat_time =
                           now + HEART_BEAT_INTERVAL + peer.slow_heart_beat_down
                     /\ after.slow_heart_beat_down =
                           Min(peer.slow_heart_beat_down + HEART_BEAT_SLOW_DOWN,
                               HEART_BEAT_MAX_INTERVAL)]_vars

\* The heart-beat has found a direct peer silent for longer than
\* NO_CONNECTION_THRESHOLD and a routed one silent for longer than
\* UNRESPONSIVE_THRESHOLD.
C27_Witness ==
    /\ StateOf("n1", "n2") = NO_CONNECTION
    /\ peers["n1"]["n2"].last_heart_beat_time + NO_CONNECTION_THRESHOLD < tick["n1"]
    /\ StateOf("n1", "n3") = UNREACHABLE
    /\ peers["n1"]["n3"].via = "n2"

(***************************************************************************)
(* C28: the reconnect of a peer that is NO_CONNECTION                      *)
(***************************************************************************)
\* The connect messages for peer p that the step puts on the connection
\* queue of node n: their places in the queue.
ConnectsFor(n, p) ==
    {k \in (Len(connection_queue[n]) + 1)..Len(connection_queue'[n]) :
        connection_queue'[n][k].peer = p}

\* The step takes peer p of node n into NO_CONNECTION.
EntersNoConnection(n, p) ==
    /\ peers[n][p] # NoPeer
    /\ peers'[n][p] # NoPeer
    /\ peers[n][p].conn_state # NO_CONNECTION
    /\ peers'[n][p].conn_state = NO_CONNECTION

\* C28: whenever a peer enters NO_CONNECTION its next_heart_beat_time is
\* last_heart_beat_time + UNRESPONSIVE_RECONNECT_WAIT, and the connector
\* puts no connect message for a NO_CONNECTION peer on the connection
\* queue before that time.
C28_NoConnectionWaits ==
    [][\A n \in Nodes : \A p \in Nodes :
          /\ EntersNoConnection(n, p)
             => /\ peers'[n][p].next_heart_beat_time =
                      peers'[n][p].last_heart_beat_time + UNRESPONSIVE_RECONNECT_WAIT
                /\ ConnectsFor(n, p) = {}
          /\ (/\ peers[n][p] # NoPeer
              /\ peers[n][p].conn_state = NO_CONNECTION
              /\ ConnectsFor(n, p) # {})
             => peers[n][p].last_heart_beat_time + UNRESPONSIVE_RECONNECT_WAIT <= now]_vars

\* The part of C28 that holds: a peer that the connector takes into
\* NO_CONNECTION (connect timeout, send failure, dropped connect) waits
\* UNRESPONSIVE_RECONNECT_WAIT from then, and no connect message is
\* queued for a NO_CONNECTION peer before last_heart_beat_time +
\* UNRESPONSIVE_RECONNECT_WAIT.
NoConnectionByConnectorWaits ==
    [][\A n \in Nodes : \A p \in Nodes :
          /\ (EntersNoConnection(n, p) /\ ~does_heart_beat(peers[n][p]))
             => /\ peers'[n][p].next_heart_beat_time =
                      peers'[n][p].last_heart_beat_time + UNRESPONSIVE_RECONNECT_WAIT
                /\ ConnectsFor(n, p) = {}
          /\ (/\ peers[n][p] # NoPeer
              /\ peers[n][p].conn_state = NO_CONNECTION
              /\ ConnectsFor(n, p) # {})
             => peers[n][p].last_heart_beat_time + UNRESPONSIVE_RECONNECT_WAIT <= now]_vars

(***************************************************************************)
(* One node whose sender falls behind                                      *)
(***************************************************************************)
\* The steps of the clock in a run in which a peer is tried, given up and
\* tried again.
MaxStallTicks == 14

\* The node is n1; it is told of n2 as the run begins, and nothing comes
\* back from n2. The clock does not wait for the sender.
NextStall ==
    \/ MuteApp("n1")
    \/ SndWorker("n1")
    \/ MuteAdd("n2")
    \/ Tick(MaxStallTicks * ClockStep)

SpecStall == InitMute /\ [][NextStall]_vars

\* The connect messages for peer p that wait on the connection queue of
\* node n: their places in the queue.
PendingConnects(n, p) ==
    {k \in 1..Len(connection_queue[n]) : connection_queue[n][k].peer = p}

\* C29: in every reachable state the connection queue of a node holds at
\* most one connect message for a peer, however far the sender is behind.
C29_OnePendingConnect ==
    \A n \in Nodes : \A p \in Nodes : Cardinality(PendingConnects(n, p)) <= 1

\* The part of C29 that holds: for a peer that is INITIAL the connector
\* queues no second connect message, however far the sender is behind.
OnePendingConnectWhileInitial ==
    \A n \in Nodes : \A p \in Nodes :
        (peers[n][p] # NoPeer /\ peers[n][p].conn_state = INITIAL)
        => Cardinality(PendingConnects(n, p)) <= 1

(***************************************************************************)
(* C30: what is sent toward a peer that is UNREACHABLE                     *)
(***************************************************************************)
\* Peer p of node n is UNREACHABLE before the step and after it.
StaysUnreachable(n, p) ==
    /\ peers[n][p] # NoPeer
    /\ peers'[n][p] # NoPeer
    /\ peers[n][p].conn_state = UNREACHABLE
    /\ peers'[n][p].conn_state = UNREACHABLE

\* The messages for peer p that the step puts on the queues of the sender
\* of node n (enqueue_fast of the heart-beats, enqueue_all of what the
\* handlers returned).
EmittedFor(n, p) ==
    {m \in UNION {{out_queues'[n][s][k] :
                      k \in (Len(out_queues[n][s]) + 1)..Len(out_queues'[n][s])} :
                  s \in Speeds} : m.to = p}

\* C30: while a peer is UNREACHABLE the node sends nothing but heart-beat
\* messages toward it: no connect message for it goes on the connection
\* queue, and what goes on the queues of the sender for it is a heart-beat.
C30_OnlyHeartBeatsWhileUnreachable ==
    [][\A n \in Nodes : \A p \in Nodes :
          StaysUnreachable(n, p)
          => /\ ConnectsFor(n, p) = {}
             /\ \A m \in EmittedFor(n, p) : m.command = CMD_HB]_vars

\* The part of C30 that holds: the connector puts no connect message on
\* the connection queue for a peer that is UNREACHABLE.
NoConnectWhileUnreachable ==
    [][\A n \in Nodes : \A p \in Nodes :
          StaysUnreachable(n, p) => ConnectsFor(n, p) = {}]_vars

\* The part of C30 that holds: the heart-beat is sent to the peer that is
\* UNREACHABLE.
BeatsWhileUnreachable ==
    [][\A n \in Nodes : \A p \in Nodes :
          (PassBegins(n) /\ StaysUnreachable(n, p) /\ BeatDue(n, p))
          => Cardinality(BeatsFor(n, p)) = 1]_vars

(***************************************************************************)
(* One node whose sends may fail and whose sender may fall behind          *)
(***************************************************************************)
\* The node is n1; it is told of n2 as the run begins, nothing comes back
\* from n2, the transport may refuse the connection or the send, and the
\* clock does not wait for the sender.
NextRefuse ==
    \/ MuteApp("n1")
    \/ SndWorker("n1")
    \/ SndConnectError("n1")
    \/ SndSendInvalid("n1")
    \/ SndSendError("n1")
    \/ SndResume("n1")
    \/ MuteAdd("n2")
    \/ Tick(MaxStallTicks * ClockStep)

SpecRefuse == InitMute /\ [][NextRefuse]_vars

(***************************************************************************)
(* C31: what the connector is told by the sender                           *)
(***************************************************************************)
\* The step is a send_message call of the sender of node n that ends in
\* message_sent for a connect message to a peer that is in the table.
ConnectSent(n) ==
    /\ snd[n].pc = "send"
    /\ snd'[n] # snd[n]
    /\ Sending(n).handler = CMD_HELLO
    /\ peers[n][Sending(n).to] # NoPeer
    /\ seen'[n].transport
    /\ seen'[n].on_sent = 1

\* The step is a send_message call of the sender of node n that ends in
\* send_failed or message_dropped for a connect message to a peer that is
\* in the table.
ConnectNotSent(n) ==
    /\ snd[n].pc = "send"
    /\ snd'[n] # snd[n]
    /\ Sending(n).handler = CMD_HELLO
    /\ peers[n][Sending(n).to] # NoPeer
    /\ seen'[n].transport
    /\ seen'[n].on_send_failed + seen'[n].on_dropped = 1

\* The step is the connect_peers of node n that fails to connect to the
\* peer of the item at the head of the connection queue.
ConnectRefused(n) ==
    /\ snd[n].pc = "connect"
    /\ connection_queue[n] # <<>>
    /\ connection_queue'[n] = Tail(connection_queue[n])
    /\ out_queues'[n][SPEED_FAST] = out_queues[n][SPEED_FAST]
    /\ peers[n][Head(connection_queue[n]).peer] # NoPeer

\* The step puts nothing on a queue of the sender of node n.
NothingQueued(n) ==
    /\ \A s \in Speeds : Len(out_queues'[n][s]) <= Len(out_queues[n][s])
    /\ Len(connection_queue'[n]) <= Len(connection_queue[n])

\* C31: message_sent of the connector sets the peer a connect message
\* was sent to CONNECTING; send_failed and message_dropped declare that
\* peer NO_CONNECTION, with last_heart_beat_time the tick and
\* next_heart_beat_time the tick + UNRESPONSIVE_RECONNECT_WAIT, and the
\* message is not queued again.
C31_ConnectorCallbacks ==
    [][\A n \in Nodes :
          /\ ConnectSent(n)
             => SetConnecting(peers[n][Sending(n).to], peers'[n][Sending(n).to])
          /\ ConnectNotSent(n)
             => /\ DeclaredNoConnection(peers[n][Sending(n).to],
                                         peers'[n][Sending(n).to], tick[n])
                /\ NothingQueued(n)
          /\ ConnectRefused(n)
             => /\ DeclaredNoConnection(peers[n][Head(connection_queue[n]).peer],
                                         peers'[n][Head(connection_queue[n]).peer], tick[n])
                /\ NothingQueued(n)]_vars

\* The only message n1 ever made, the connect message for n2, was dropped
\* (its deadline had come when the send failed): n2 is NO_CONNECTION since
\* this tick and nothing waits to be sent.
C31_Witness ==
    /\ next_message_id["n1"] = 1
    /\ seen["n1"] # NothingSeen
    /\ seen["n1"].on_dropped = 1
    /\ peers["n1"]["n2"] # NoPeer
    /\ peers["n1"]["n2"].conn_state = NO_CONNECTION
    /\ peers["n1"]["n2"].last_heart_beat_time = tick["n1"]
    /\ peers["n1"]["n2"].next_heart_beat_time = tick["n1"] + UNRESPONSIVE_RECONNECT_WAIT
    /\ Outbound("n1") = 0
    /\ connection_queue["n1"] = <<>>

(***************************************************************************)
(* One node that is sent heart-beats                                       *)
(***************************************************************************)
\* What n2 sends to n1: heart-beat requests and replies of its own and of
\* n3, for which it relays.
BeatFrames ==
    {"n2", "n3"} \X {MESSAGE_TYPE_REQUEST, MESSAGE_TYPE_REPLY}

\* The node is n1; the application tells it of n2 and of n3, or does not.
NextBeat ==
    \/ AppConcerns("n1")
    \/ AppDequeue("n1")
    \/ AppDispatchHeartBeat("n1")
    \/ AppEnqueueAll("n1")
    \/ SndWorker("n1")
    \/ Receive("n1")
    \/ \E p \in {"n2", "n3"} : EnvAddPeer("n1", p)
    \/ \E f \in BeatFrames : EnvFrame("n1", "n2", f[1], f[2], CMD_HB, TRUE)
    \/ TickCalm(MaxTicks * ClockStep)

SpecBeat == InitOne /\ [][NextBeat]_vars

(***************************************************************************)
(* C32: the handlers of the heart-beat concern                             *)
(***************************************************************************)
\* The step is the call of the handler of node n for a heart-beat message.
HeartBeatHandled(n) ==
    /\ AtMessage(n)
    /\ Current(n).command = CMD_HB
    /\ app'[n] # app[n]

\* The record is what the direct-versus-relay rule makes of it for a
\* message at the tick: CONNECTED with no relay when the message came
\* from the peer itself, ROUTED through the previous hop when not, and the
\* heart-beat timers reset.
Refreshed(old, new, message, app_tick) ==
    LET direct == message.source = message.previous_hop
    IN new = [old EXCEPT !.conn_state = IF direct THEN CONNECTED ELSE ROUTED,
                         !.via = IF direct THEN NULL ELSE message.previous_hop,
                         !.last_heart_beat_time = app_tick,
                         !.next_heart_beat_time = app_tick + HEART_BEAT_INTERVAL,
                         !.slow_heart_beat_down = 0]

\* The handler of node n has returned one message, the empty heart-beat
\* reply to the request, at priority FAST.
RepliedToBeat(n) ==
    LET before == app[n].results
        after == app'[n].results
        reply == after[SPEED_FAST][Len(after[SPEED_FAST])]
    IN /\ Len(after[SPEED_FAST]) = Len(before[SPEED_FAST]) + 1
       /\ SubSeq(after[SPEED_FAST], 1, Len(before[SPEED_FAST])) = before[SPEED_FAST]
       /\ after[SPEED_MEDIUM] = before[SPEED_MEDIUM]
       /\ after[SPEED_SLOW] = before[SPEED_SLOW]
       /\ reply.kind = MESSAGE_TYPE_REPLY
       /\ reply.command = CMD_HB
       /\ reply.source = n
       /\ reply.to = Current(n).source
       /\ reply.next_hop = Current(n).previous_hop
       /\ reply.message_id = Current(n).message_id
       /\ reply.payload = <<>>

\* C32: a heart-beat request from a peer in the table refreshes the peer
\* by the direct-versus-relay rule and is answered with one empty
\* heart-beat reply at priority FAST; a heart-beat reply refreshes the
\* peer and no message is returned; a heart-beat request or reply from a
\* source that is not in the table changes no peer, adds none and no
\* message is returned.
C32_HeartBeatHandlers ==
    [][\A n \in Nodes :
          HeartBeatHandled(n) =>
             LET message == Current(n)
                 p == message.source
             IN /\ \A q \in Nodes \ {p} : peers'[n][q] = peers[n][q]
                /\ connection_queue'[n] = connection_queue[n]
                /\ IF peers[n][p] = NoPeer
                   THEN /\ peers'[n][p] = NoPeer
                        /\ app'[n].results = app[n].results
                   ELSE /\ Refreshed(peers[n][p], peers'[n][p], message, tick[n])
                        /\ IF app[n].pc = "requests"
                           THEN RepliedToBeat(n)
                           ELSE app'[n].results = app[n].results]_vars

\* n1 has answered a heart-beat request of n3 that n2 relayed and has
\* taken the heart-beat reply of n2: n3 is ROUTED through n2, n2 is
\* CONNECTED, and the reply for n3 waits on the fast queue.
C32_Witness ==
    /\ now > 0
    /\ peers["n1"]["n2"] # NoPeer
    /\ peers["n1"]["n2"].conn_state = CONNECTED
    /\ peers["n1"]["n2"].last_heart_beat_time = now
    /\ peers["n1"]["n3"] # NoPeer
    /\ peers["n1"]["n3"].conn_state = ROUTED
    /\ peers["n1"]["n3"].via = "n2"
    /\ peers["n1"]["n3"].last_heart_beat_time = now
    /\ \E k \in 1..Len(out_queues["n1"][SPEED_FAST]) :
          LET reply == out_queues["n1"][SPEED_FAST][k]
          IN /\ reply.command = CMD_HB
             /\ reply.kind = MESSAGE_TYPE_REPLY
             /\ reply.to = "n3"

(***************************************************************************)
(* One node whose application adds a peer again                            *)
(***************************************************************************)
\* PeerStore.add_peer, called by the application with a new Peer object
\* under an id that is in the table: the object takes the place of the
\* one that was there (a queued connect item still holds the old object;
\* the mark the sender puts on it is shown on the record in the table).
EnvReplacePeer(n, p) ==
    /\ Started(n)
    /\ p # n
    /\ peers[n][p] # NoPeer
    /\ env.calls > 0
    /\ env' = [env EXCEPT !.calls = @ - 1]
    /\ peers' = [peers EXCEPT ![n][p] = Peer(p, bind_address(p), bind_port(p), NoTime)]
    /\ UNCHANGED <<now, tick, next_message_id, connection_queue, out_queues,
                   typed_queues, wire, app, snd, seen, codec, db, life, registry, links, routed, ask, alloc>>

\* The node is n1; it is told of n2, and told of it again at any time.
\* Nothing comes back from n2.
NextReplace ==
    \/ MuteApp("n1")
    \/ AppResume("n1")
    \/ SndWorker("n1")
    \/ EnvAddPeer("n1", "n2")
    \/ EnvReplacePeer("n1", "n2")
    \/ TickCalm(MaxTicks * ClockStep)

SpecReplace == InitMute /\ [][NextReplace]_vars

(***************************************************************************)
(* C33: the timers of a peer that is past INITIAL                          *)
(***************************************************************************)
\* The timers the connector and the heart-beat concern compare with the
\* tick are set on peer record `peer`.
TimersSet(peer) ==
    /\ peer.conn_state \in {CONNECTING, NO_CONNECTION, CONNECTED, ROUTED, UNREACHABLE}
       => peer.next_heart_beat_time # NoTime
    /\ peer.conn_state \in {CONNECTED, ROUTED, UNREACHABLE}
       => peer.last_heart_beat_time # NoTime

\* C33: every peer that is CONNECTING, NO_CONNECTION, CONNECTED, ROUTED or
\* UNREACHABLE has its next_heart_beat_time set, and every peer that is
\* CONNECTED, ROUTED or UNREACHABLE its last_heart_beat_time, so that no
\* pass of the app worker compares None with the tick; also when add_peer
\* replaces a record while a connect message for it is queued or on its
\* way.
C33_TimersAreSet ==
    \A n \in Nodes :
        /\ \A p \in Nodes : peers[n][p] # NoPeer => TimersSet(peers[n][p])
        /\ app[n].exc # "TypeError"

(***************************************************************************)
(* C34: the callbacks of the connector and a peer taken meanwhile          *)
(***************************************************************************)
\* C34: message_sent, send_failed and message_dropped of the connector
\* return without an exception for every connect message, also when
\* take_peer removed the peer the message is for after the message was
\* queued: no pass of the sender is ended by a KeyError.
C34_CallbacksComplete ==
    \A n \in Nodes : snd[n].exc # "KeyError"

\* The part of C34 that holds: for a connect message to a peer that is in
\* the table the callbacks return without an exception.
CallbacksCompleteForPeerInTable ==
    [][\A n \in Nodes :
          (ConnectSent(n) \/ ConnectNotSent(n) \/ ConnectRefused(n))
          => snd'[n].exc = NULL]_vars

(***************************************************************************)
(* C35: connect_peers                                                      *)
(***************************************************************************)
\* The step is connect_peers of node n taking the item at the head of the
\* connection queue.
ConnectItemTaken(n) ==
    /\ snd[n].pc = "connect"
    /\ connection_queue[n] # <<>>
    /\ connection_queue'[n] = Tail(connection_queue[n])

\* The step opened a transport connection from node n to peer p.
LinkOpened(n, p) == links'[n][p] = links[n][p] + 1

\* C35: connect_peers takes every item off the connection queue; it
\* opens a transport connection to the peer of an item only when the
\* peer has no `_first_connect` mark, and marks it, so that no more than
\* one connection is opened per peer; the message of the item goes to the
\* tail of the fast queue, or, when the transport fails to connect, the
\* handler of the message is told send_failed once.
C35_ConnectOncePerPeer ==
    [][\A n \in Nodes :
          ConnectItemTaken(n) =>
             LET item == Head(connection_queue[n])
                 p == item.peer
             IN /\ (LinkOpened(n, p) /\ peers[n][p] # NoPeer)
                   => ~peers[n][p].first_connect
                /\ links'[n][p] <= 1
                /\ peers[n][p] # NoPeer => peers'[n][p].first_connect
                /\ \/ /\ LinkOpened(n, p)
                      /\ out_queues'[n][SPEED_FAST]
                            = Append(out_queues[n][SPEED_FAST], item.message)
                   \/ /\ links' = links
                      /\ out_queues' = out_queues
                      /\ peers[n][p] # NoPeer
                         => DeclaredNoConnection(peers[n][p], peers'[n][p], tick[n])]_vars

\* The part of C35 that holds: every item is taken off the queue, its
\* peer is marked, and either the connection is opened and the message
\* goes to the tail of the fast queue, or the handler of the message is
\* told send_failed once and the message goes nowhere.
ConnectPeersDrains ==
    [][\A n \in Nodes :
          ConnectItemTaken(n) =>
             LET item == Head(connection_queue[n])
                 p == item.peer
             IN /\ peers[n][p] # NoPeer => peers'[n][p].first_connect
                /\ \/ /\ LinkOpened(n, p)
                      /\ out_queues'[n][SPEED_FAST]
                            = Append(out_queues[n][SPEED_FAST], item.message)
                   \/ /\ links' = links
                      /\ out_queues' = out_queues
                      /\ peers[n][p] # NoPeer
                         => DeclaredNoConnection(peers[n][p], peers'[n][p], tick[n])]_vars

(***************************************************************************)
(* concerns/ask_around.py and router.py (modelled from the specification,  *)
(* from tests/unit/concerns/test_ask_around.py and from                    *)
(* tests/unit/router/tests_router.py)                                      *)
(***************************************************************************)
\* AskAroundConcern.command_id
CMD_ASK == "r"

\* The pause between two discoveries of one peer.
ASK_AROUND_INTERVAL == 30

\* The breadcrumbs of a request a node composes: those of the caller (None
\* for a discovery that starts here), then the node itself.
Crumbs(breadcrumbs, app_uuid) ==
    (IF breadcrumbs = NULL THEN <<>> ELSE breadcrumbs) \o <<app_uuid>>

\* AskAroundConcern.compose_ask_around_message, the loop over
\* app.peers_connected from the k-th peer on: one request for every
\* CONNECTED peer that is not the target and not in `exclude`.
RECURSIVE AskAroundSweep(_, _, _, _, _)
AskAroundSweep(st, target, exclude, crumbs, k) ==
    IF k > Len(PeerOrder) THEN st
    ELSE LET id == PeerOrder[k]
             asked == /\ st.peers[id] # NoPeer
                      /\ st.peers[id].conn_state = CONNECTED
                      /\ id # target
                      /\ id \notin exclude
             made == MessageInit(st.uuid, id, NULL, id, CMD_ASK, KindOfReply(FALSE),
                                 CMD_ASK, 0, DEFAULT_TIME_TO_LIVE,
                                 [target |-> target, breadcrumbs |-> crumbs],
                                 st.now, st.counter)
         IN AskAroundSweep(
               IF asked THEN [st EXCEPT !.counter = made.counter,
                                        !.messages = Append(@, made.msg)]
               ELSE st,
               target, exclude, crumbs, k + 1)

\* The timers of a peer after a discovery for it was composed.
AskedAround(peer, app_tick) ==
    [peer EXCEPT !.next_ask_around_time = app_tick + ASK_AROUND_INTERVAL,
                 !.last_ask_around_time = app_tick]

\* The call is held back by the pause between two discoveries. The tests
\* fix two cases: a peer never asked for is asked for, and a peer whose
\* next_ask_around_time lies after app.tick is asked for as well
\* (test_compose_ask_around_message__two_peers: the second call, at the
\* tick of the first, composes). For a time that has passed the call
\* composes nothing in the one test there is (..__not_too_often), with no
\* connected peer to ask: `throttles` says whether the pause held it back.
Throttled(peer, app_tick, throttles) ==
    /\ peer.next_ask_around_time # NoTime
    /\ peer.next_ask_around_time <= app_tick
    /\ throttles

\* AskAroundConcern.compose_ask_around_message: the requests (each goes out
\* at SPEED_FAST) are added to st.messages; `peer` is the peer object
\* after the call.
compose_ask_around_message(st, peer, exclude, breadcrumbs, throttles) ==
    IF Throttled(peer, st.tick, throttles)
    THEN [st |-> st, peer |-> peer]
    ELSE [st |-> AskAroundSweep(st, peer.uuid, exclude, Crumbs(breadcrumbs, st.uuid), 1),
          peer |-> AskedAround(peer, st.tick)]

\* What process_routes has done so far in a call: `st` is what the node
\* looks like (st.messages holds the discovery requests, which go out at
\* SPEED_FAST), `medium` the messages to forward at SPEED_MEDIUM and `log`
\* says, for each message looked at, whether drop_routed_message got it,
\* whether it is forwarded and how many discovery requests it caused.
RouteBegin(st) == [st |-> st, medium |-> <<>>, log |-> <<>>]

RouteNote(message, dropped, forwarded, asked) ==
    [message |-> message, dropped |-> dropped, forwarded |-> forwarded, asked |-> asked]

\* A deadline that is over only once the tick has passed it.
RouteExpiredWhenPast(message, app_tick) == message.time_to_live < app_tick

\* Router.process_routes: the deadline of the message is over (it is not
\* after app.tick).
RouteExpired(message, app_tick) == message.time_to_live <= app_tick

\* Router.process_routes, the body of the loop, for one message. A
\* destination in a state the specification does not name (INITIAL,
\* CONNECTING, UNREACHABLE) is not forwarded to; `asks` says whether a
\* discovery is composed for it. For a destination not in the table the
\* discovery is composed for a peer object that is not put into the table.
\* The router starts a discovery: it excludes no peer and has no
\* breadcrumbs to pass on.
RouteVisit(rs, message, throttles, asks) ==
    IF message.to = NULL \/ message.to = rs.st.uuid
    THEN [rs EXCEPT !.st = Raise(@, "AssertionError")]
    ELSE LET st == rs.st
             known == st.peers[message.to] # NoPeer
             peer == IF known THEN st.peers[message.to]
                     ELSE Peer(message.to, NULL, NULL, NoTime)
             forwards == known /\ peer.conn_state \in {CONNECTED, ROUTED}
             discovers == \/ ~known
                          \/ peer.conn_state = NO_CONNECTION
                          \/ (~forwards /\ asks)
             made == compose_ask_around_message(st, peer, {}, NULL, throttles)
         IN IF RouteExpired(message, st.tick)
            THEN [rs EXCEPT !.log = Append(@, RouteNote(message, TRUE, FALSE, 0))]
            ELSE IF forwards
            THEN [rs EXCEPT !.medium = Append(@, [message EXCEPT !.previous_hop = st.uuid]),
                            !.log = Append(@, RouteNote(message, FALSE, TRUE, 0))]
            ELSE IF discovers
            THEN [rs EXCEPT !.st = IF known
                                   THEN [made.st EXCEPT !.peers[message.to] = made.peer]
                                   ELSE made.st,
                            !.log = Append(@, RouteNote(message, TRUE, FALSE,
                                          Len(made.st.messages) - Len(st.messages)))]
            ELSE [rs EXCEPT !.log = Append(@, RouteNote(message, TRUE, FALSE, 0))]

\* Router.process_routes: the loop over the messages of the queue; an
\* assertion that fails ends the call.
RECURSIVE process_routes(_, _, _, _)
process_routes(rs, queue, throttles, asks) ==
    IF queue = <<>> \/ rs.st.exc # NULL THEN rs
    ELSE process_routes(RouteVisit(rs, Head(queue), throttles, asks),
                        Tail(queue), throttles, asks)

\* LocalPeer.execute, from process_routes on, with messages in the ROUTE
\* queue: process_routes, then sender.enqueue_all with what the handlers
\* returned (asserted valid for send), the forwarded messages at
\* SPEED_MEDIUM and the discovery requests at SPEED_FAST.
AppRoutes(n) ==
    /\ app[n].pc = "enqueue"
    /\ typed_queues[n][MESSAGE_TYPE_ROUTE] # <<>>
    /\ \E throttles \in BOOLEAN, asks \in BOOLEAN :
          LET queue == typed_queues[n][MESSAGE_TYPE_ROUTE]
              rs == process_routes(RouteBegin(St(n)), queue, throttles, asks)
              ok == /\ rs.st.exc = NULL
                    /\ \A s \in Speeds : validate_messages_for_send(app[n].results[s], tick[n])
          IN /\ Commit(n, rs.st)
             /\ routed' = [routed EXCEPT ![n] =
                              [called |-> TRUE, tick |-> tick[n], before |-> peers[n],
                               queue |-> queue,
                               exc |-> rs.st.exc, log |-> rs.log,
                               fast |-> rs.st.messages, medium |-> rs.medium]]
             /\ out_queues' = [out_queues EXCEPT ![n] =
                                  IF ok
                                  THEN [s \in Speeds |->
                                           @[s] \o app[n].results[s]
                                                \o (IF s = SPEED_FAST THEN rs.st.messages
                                                    ELSE IF s = SPEED_MEDIUM THEN rs.medium
                                                    ELSE <<>>)]
                                  ELSE @]
             /\ app' = [app EXCEPT ![n] = IF ok THEN AppIdle
                                           ELSE AppRaised("AssertionError", 0)]
    /\ typed_queues' = [typed_queues EXCEPT ![n][MESSAGE_TYPE_ROUTE] = <<>>]
    /\ UNCHANGED <<now, tick, wire, snd, seen, env, codec, db, life, registry, links, ask, alloc>>

(***************************************************************************)
(* A node that relays: ROUTE messages wait in its queue when a pass begins *)
(***************************************************************************)
\* Most ROUTE messages that wait for one pass of the app worker.
MaxRoutes == 2

\* The time of the pass.
RouteTime == 2 * DEFAULT_TIME_TO_LIVE

\* The node a ROUTE message for `to` came from.
RouteFrom(to) == IF to = "n2" THEN "n3" ELSE "n2"

\* A ROUTE message as Message.parse leaves it in the queue (no handler, no
\* next hop), the k-th of the queue, for `to`, with a deadline.
RouteMessage(k, to, time_to_live) ==
    [source |-> RouteFrom(to), to |-> to, previous_hop |-> RouteFrom(to),
     next_hop |-> NULL, command |-> CMD_APP, handler |-> NULL,
     kind |-> MESSAGE_TYPE_ROUTE, payload |-> <<>>,
     time_to_live |-> time_to_live, message_id |-> k]

\* The destinations (None and the node itself are what process_routes
\* asserts against) and the deadlines of the messages that wait: one that
\* was decoded as the pass began and one that is as old as it may get.
RouteMenu == (Nodes \cup {NULL}) \X {RouteTime, RouteTime + DEFAULT_TIME_TO_LIVE}

RouteQueues ==
    UNION { [1..len -> RouteMenu] : len \in 1..MaxRoutes }

\* A peer of the table in a state, with the timers the state comes with.
RoutePeer(p, state, next_ask) ==
    [Peer(p, bind_address(p), bind_port(p), NoTime) EXCEPT
        !.conn_state = state,
        !.via = IF state = ROUTED THEN RouteFrom(p) ELSE NULL,
        !.first_connect = state # INITIAL,
        !.last_heart_beat_time = IF state = INITIAL THEN NoTime ELSE RouteTime,
        !.next_heart_beat_time =
            IF state = INITIAL THEN NoTime
            ELSE IF state = NO_CONNECTION THEN RouteTime + UNRESPONSIVE_RECONNECT_WAIT
            ELSE RouteTime + HEART_BEAT_INTERVAL,
        !.next_ask_around_time = next_ask,
        !.last_ask_around_time =
            IF next_ask = NoTime THEN NoTime ELSE next_ask - ASK_AROUND_INTERVAL]

\* What the table may hold under p: nothing, a peer in any state that was
\* never asked around for, or a peer without connection that was.
RoutePeers(p) ==
    {NoPeer}
    \cup { RoutePeer(p, state, NoTime) :
              state \in {INITIAL, CONNECTING, CONNECTED, ROUTED, UNREACHABLE, NO_CONNECTION} }
    \cup { RoutePeer(p, NO_CONNECTION, t) :
              t \in {RouteTime - ClockStep, RouteTime + ClockStep} }

InitRoute ==
    /\ now = RouteTime
    /\ next_message_id = [n \in Nodes |-> 0]
    /\ tick = [n \in Nodes |-> IF n = "n1" THEN RouteTime - ClockStep ELSE 0]
    /\ connection_queue = [n \in Nodes |-> <<>>]
    /\ out_queues = [n \in Nodes |-> [s \in Speeds |-> <<>>]]
    /\ \E q \in RouteQueues :
          typed_queues = [n \in Nodes |-> [k \in Kinds |->
                             IF n = "n1" /\ k = MESSAGE_TYPE_ROUTE
                             THEN [i \in DOMAIN q |-> RouteMessage(i, q[i][1], q[i][2])]
                             ELSE <<>>]]
    /\ wire = [n \in Nodes |-> <<>>]
    /\ snd = [n \in Nodes |-> SndIdle]
    /\ seen = [n \in Nodes |-> NothingSeen]
    /\ db = [n \in Nodes |-> StartedDb(0)]
    /\ life = [n \in Nodes |-> RunningLife]
    /\ registry = [n \in Nodes |-> StartedRegistry]
    /\ links = [n \in Nodes |-> [p \in Nodes |-> 0]]
    /\ routed = [n \in Nodes |-> NoRoutes]
    /\ ask = AskIdle
    /\ alloc = [n \in Nodes |-> NoAlloc]
    /\ \E p2 \in RoutePeers("n2"), p3 \in RoutePeers("n3") :
          peers = [n \in Nodes |->
                      IF n = "n1"
                      THEN [p \in Nodes |-> IF p = "n2" THEN p2 ELSE IF p = "n3" THEN p3 ELSE NoPeer]
                      ELSE [p \in Nodes |-> NoPeer]]
    /\ app = [n \in Nodes |-> IF n = "n1" THEN AppIdle ELSE AppOff]
    /\ env = [frames |-> 0, calls |-> 0]
    /\ codec = CodecIdle

\* LocalPeer.execute ends with nothing in the ROUTE queue.
AppEnqueueNoRoutes(n) ==
    /\ typed_queues[n][MESSAGE_TYPE_ROUTE] = <<>>
    /\ AppEnqueueAll(n)

NextRoute ==
    \/ AppConcerns("n1")
    \/ AppDequeue("n1")
    \/ AppRoutes("n1")
    \/ AppEnqueueNoRoutes("n1")
    \/ AppResume("n1")

SpecRoute == InitRoute /\ [][NextRoute]_vars

\* The destination of a ROUTE message is one process_routes asserts against.
Misrouted(n, message) == message.to = NULL \/ message.to = n

\* The CONNECTED peers of a table other than p: those a discovery for p
\* that excludes nobody asks.
AskedFor(table, p) ==
    { q \in Nodes : table[q] # NoPeer /\ table[q].conn_state = CONNECTED /\ q # p }

\* The pause between two discoveries cannot hold a discovery for p back: p
\* is not in the table, was never asked around for, or its
\* next_ask_around_time lies after the tick.
NeverThrottled(table, p, app_tick) ==
    \/ table[p] = NoPeer
    \/ table[p].next_ask_around_time = NoTime
    \/ table[p].next_ask_around_time > app_tick

\* What the last call of process_routes of node n did to the k-th message
\* it looked at is what Router.process_routes has to do to it.
RoutedAsSpecified(n, k) ==
    LET r == routed[n]
        e == r.log[k]
        m == e.message
        dest == r.before[m.to]
        live == m.time_to_live > r.tick
        reachable == dest # NoPeer /\ dest.conn_state \in {CONNECTED, ROUTED}
        lost == dest = NoPeer \/ dest.conn_state = NO_CONNECTION
    IN /\ m = r.queue[k]
       /\ ~Misrouted(n, m)
       /\ e.forwarded <=> (live /\ reachable)
       /\ e.forwarded <=> ~e.dropped
       /\ e.forwarded => e.asked = 0
       /\ e.forwarded =>
             \E j \in 1..Len(r.medium) : r.medium[j] = [m EXCEPT !.previous_hop = n]
       /\ ~live => e.asked = 0
       /\ (live /\ lost /\ NeverThrottled(r.before, m.to, r.tick)) =>
             e.asked = Cardinality(AskedFor(r.before, m.to))

\* The sum of the discovery requests the first k messages caused.
RECURSIVE AskedUpTo(_, _)
AskedUpTo(log, k) == IF k = 0 THEN 0 ELSE log[k].asked + AskedUpTo(log, k - 1)

\* The messages among the first k that are forwarded.
ForwardedUpTo(log, k) == { j \in 1..k : log[j].forwarded }

\* C36: process_routes forwards a ROUTE message (at SPEED_MEDIUM, with
\* previous_hop set to the node) only when its time_to_live lies after the
\* tick and its destination is a peer of the table that is CONNECTED or
\* ROUTED; a message whose time_to_live is not after the tick goes to
\* drop_routed_message and is not forwarded; for a destination that is
\* not in the table or is NO_CONNECTION the ask-around concern composes
\* the discovery requests, which are returned at SPEED_FAST; a message for
\* None or for the node itself fails the assertion, which ends the call.
C36_ProcessRoutes ==
    \A n \in Nodes :
        routed[n].called =>
            LET r == routed[n]
                bad == { k \in 1..Len(r.queue) : Misrouted(n, r.queue[k]) }
            IN /\ \A k \in 1..Len(r.log) : RoutedAsSpecified(n, k)
               /\ (r.exc = "AssertionError") <=> (bad # {})
               /\ r.exc \in {NULL, "AssertionError"}
               /\ bad = {} => Len(r.log) = Len(r.queue)
               /\ bad # {} => \A k \in bad : Len(r.log) < k
               /\ bad # {} => Len(r.log) + 1 \in bad
               /\ Len(r.medium) = Cardinality(ForwardedUpTo(r.log, Len(r.log)))
               /\ \A j \in 1..Len(r.medium) : r.medium[j].previous_hop = n
               /\ Len(r.fast) = AskedUpTo(r.log, Len(r.log))
               /\ \A j \in 1..Len(r.fast) :
                     /\ r.fast[j].command = CMD_ASK
                     /\ r.fast[j].kind = MESSAGE_TYPE_REQUEST
                     /\ \E k \in 1..Len(r.log) :
                           /\ r.log[k].asked > 0
                           /\ r.fast[j].payload.target = r.log[k].message.to
               /\ (r.exc = NULL /\ app[n].pc = "idle") =>
                     /\ \A j \in 1..Len(r.medium) :
                           \E i \in 1..Len(out_queues[n][SPEED_MEDIUM]) :
                               out_queues[n][SPEED_MEDIUM][i] = r.medium[j]
                     /\ \A j \in 1..Len(r.fast) :
                           \E i \in 1..Len(out_queues[n][SPEED_FAST]) :
                               out_queues[n][SPEED_FAST][i] = r.fast[j]

\* A call of process_routes forwards the first message, for a CONNECTED
\* peer, and asks that peer for the destination of the second, which is
\* not in the table.
C36_Witness ==
    /\ routed["n1"].called
    /\ routed["n1"].exc = NULL
    /\ Len(routed["n1"].log) = 2
    /\ routed["n1"].log[1].forwarded
    /\ routed["n1"].log[1].message.to = "n2"
    /\ routed["n1"].log[2].dropped
    /\ routed["n1"].log[2].asked = 1
    /\ routed["n1"].before["n3"] = NoPeer
    /\ Len(out_queues["n1"][SPEED_MEDIUM]) = 1
    /\ out_queues["n1"][SPEED_MEDIUM][1].previous_hop = "n1"
    /\ Len(out_queues["n1"][SPEED_FAST]) = 1
    /\ out_queues["n1"][SPEED_FAST][1].payload.target = "n3"

(***************************************************************************)
(* Calls of compose_ask_around_message                                     *)
(***************************************************************************)
\* Most calls of compose_ask_around_message in a run.
MaxAskCalls == 2

\* Most steps of the clock in a run of such calls.
MaxAskTicks == 1

\* The breadcrumbs a caller passes: None, or those of a request that came
\* from afar.
AskCrumbs == {NULL, <<"n3">>, <<"n3", "n2">>}

InitAsk ==
    /\ now = RouteTime
    /\ next_message_id = [n \in Nodes |-> 0]
    /\ InitNodes
    /\ \E p2 \in RoutePeers("n2"), p3 \in RoutePeers("n3") :
          peers = [n \in Nodes |->
                      IF n = "n1"
                      THEN [p \in Nodes |-> IF p = "n2" THEN p2 ELSE IF p = "n3" THEN p3 ELSE NoPeer]
                      ELSE [p \in Nodes |-> NoPeer]]
    /\ app = [n \in Nodes |-> IF n = "n1" THEN AppIdle ELSE AppOff]
    /\ env = [frames |-> 0, calls |-> MaxAskCalls]
    /\ codec = CodecIdle

\* The app loop reads the clock into app.tick.
AskReadClock(n) ==
    /\ Started(n)
    /\ tick[n] # now
    /\ tick' = [tick EXCEPT ![n] = now]
    /\ UNCHANGED <<now, next_message_id, peers, connection_queue, out_queues, typed_queues,
                   wire, app, snd, seen, env, codec, db, life, registry, links, routed, ask, alloc>>

\* The router or process_request of node n calls
\* compose_ask_around_message for a peer of the table; `ask` keeps the
\* arguments, the peer before and after, and the requests returned.
AskCompose(n) ==
    /\ Started(n)
    /\ tick[n] = now
    /\ env.calls > 0
    /\ env' = [env EXCEPT !.calls = @ - 1]
    /\ \E p \in Nodes \ {n}, exclude \in SUBSET (Nodes \ {n}),
          breadcrumbs \in AskCrumbs, throttles \in BOOLEAN :
          /\ peers[n][p] # NoPeer
          /\ LET made == compose_ask_around_message(St(n), peers[n][p], exclude,
                                                    breadcrumbs, throttles)
             IN /\ peers' = [peers EXCEPT ![n][p] = made.peer]
                /\ next_message_id' = [next_message_id EXCEPT ![n] = made.st.counter]
                /\ ask' = [phase |-> "composed", node |-> n, tick |-> tick[n],
                           table |-> peers[n], before |-> peers[n][p], after |-> made.peer,
                           exclude |-> exclude, breadcrumbs |-> breadcrumbs,
                           messages |-> made.st.messages]
    /\ UNCHANGED <<now, tick, connection_queue, out_queues, typed_queues,
                   wire, app, snd, seen, codec, db, life, registry, links, routed, alloc>>

NextAsk ==
    \/ AskCompose("n1")
    \/ AskReadClock("n1")
    \/ Tick(RouteTime + MaxAskTicks * ClockStep)

SpecAsk == InitAsk /\ [][NextAsk]_vars

\* The peers a discovery of the call asks: the CONNECTED peers of the
\* table that are neither the target nor excluded.
AskTargets(a) ==
    { q \in Nodes : /\ a.table[q] # NoPeer
                    /\ a.table[q].conn_state = CONNECTED
                    /\ q # a.before.uuid
                    /\ q \notin a.exclude }

\* The requests of the call are one for each peer to ask, each from the
\* node to that peer, with the target and with the breadcrumbs of the
\* caller followed by the node.
AskedAll(a) ==
    /\ Len(a.messages) = Cardinality(AskTargets(a))
    /\ \A q \in AskTargets(a) : \E k \in 1..Len(a.messages) : a.messages[k].to = q
    /\ \A k \in 1..Len(a.messages) :
          LET m == a.messages[k]
          IN /\ m.to \in AskTargets(a)
             /\ m.source = a.node
             /\ m.next_hop = m.to
             /\ m.previous_hop = NULL
             /\ m.command = CMD_ASK
             /\ m.kind = MESSAGE_TYPE_REQUEST
             /\ m.payload.target = a.before.uuid
             /\ m.payload.breadcrumbs =
                   (IF a.breadcrumbs = NULL THEN <<>> ELSE a.breadcrumbs) \o <<a.node>>

\* The timers of the peer are set by the call.
AskTimersSet(a) ==
    /\ a.after.next_ask_around_time = a.tick + ASK_AROUND_INTERVAL
    /\ a.after.last_ask_around_time = a.tick
    /\ a.after = AskedAround(a.before, a.tick)

\* The time of the next discovery of the peer has come, or there is none.
AskElapsed(a) ==
    \/ a.before.next_ask_around_time = NoTime
    \/ a.before.next_ask_around_time <= a.tick

\* C37: a call of compose_ask_around_message for a peer whose
\* next_ask_around_time has come (or is None) returns one request for each
\* CONNECTED peer that is neither the target nor excluded, with target
\* and breadcrumbs, and sets next_ask_around_time = tick +
\* ASK_AROUND_INTERVAL and last_ask_around_time = tick; a call for a peer
\* whose next_ask_around_time has not come returns nothing and leaves the
\* peer as it is.
C37_AskAroundThrottle ==
    ask.phase = "composed" =>
        IF AskElapsed(ask)
        THEN AskedAll(ask) /\ AskTimersSet(ask)
        ELSE ask.messages = <<>> /\ ask.after = ask.before

\* A call that returns requests or moves the timers of the peer returns
\* all the requests of a discovery and sets the timers; a call for a peer
\* never asked around for does so.
ComposesAllOrNothing ==
    ask.phase = "composed" =>
        /\ (ask.messages # <<>> \/ ask.after # ask.before) =>
              AskedAll(ask) /\ AskTimersSet(ask)
        /\ ask.before.next_ask_around_time = NoTime =>
              AskedAll(ask) /\ AskTimersSet(ask)

\* What the tests fix about a peer whose time has not come: the call
\* composes.
ComposesBeforeItsTime ==
    (ask.phase = "composed" /\ ~AskElapsed(ask)) =>
        AskedAll(ask) /\ AskTimersSet(ask)

(***************************************************************************)
(* A discovery on a mesh of three nodes                                    *)
(***************************************************************************)
\* Most ask-around requests a discovery may make before the run gives it
\* up as endless.
MaxAskRequests == 8

\* A peer that is in no table of the mesh.
Stranger == "n4"

\* message.payload['target'] and message.payload['breadcrumbs'] can be read.
HasDiscovery(payload) == {"target", "breadcrumbs"} \subseteq DOMAIN payload

\* The nodes of a list of breadcrumbs.
CrumbSet(breadcrumbs) == { breadcrumbs[k] : k \in 1..Len(breadcrumbs) }

\* The target is a key of app.peers.
KnownTarget(st, target) == target \in Nodes /\ st.peers[target] # NoPeer

\* A process_request that keeps a request from going back to the hop it
\* came from and from nothing else.
AskProcessRequestExcludesHop(st, message) ==
    IF ~HasDiscovery(message.payload) THEN st
    ELSE LET target == message.payload.target
             made == create_reply(message, message.payload, st.now, st.counter)
         IN IF target = st.uuid THEN st
            ELSE IF KnownTarget(st, target)
            THEN [st EXCEPT !.counter = made.counter,
                            !.result = <<SPEED_FAST, made.msg>>]
            ELSE compose_ask_around_message(
                     st, Peer(target, NULL, NULL, NoTime), {message.previous_hop},
                     message.payload.breadcrumbs, FALSE).st

\* AskAroundConcern.process_request: nothing for a request without target
\* or breadcrumbs and for one whose target is the node itself; the reply,
\* at SPEED_FAST, for a target in the table; else the requests (in
\* st.messages) of a discovery that leaves out the hop the request came
\* from and the nodes in its breadcrumbs.
AskProcessRequest(st, message) ==
    IF ~HasDiscovery(message.payload) THEN st
    ELSE LET target == message.payload.target
             made == create_reply(message, message.payload, st.now, st.counter)
         IN IF target = st.uuid THEN st
            ELSE IF KnownTarget(st, target)
            THEN [st EXCEPT !.counter = made.counter,
                            !.result = <<SPEED_FAST, made.msg>>]
            ELSE compose_ask_around_message(
                     st, Peer(target, NULL, NULL, NoTime),
                     CrumbSet(message.payload.breadcrumbs) \cup {message.previous_hop},
                     message.payload.breadcrumbs, FALSE).st

\* The tables of a mesh: two nodes are CONNECTED to each other or do not
\* know each other.
MeshLinks == SUBSET { {"n1", "n2"}, {"n1", "n3"}, {"n2", "n3"} }

InitMesh ==
    /\ now = 0
    /\ next_message_id = [n \in Nodes |-> 0]
    /\ InitNodes
    /\ \E mesh \in MeshLinks :
          peers = [n \in Nodes |-> [p \in Nodes |->
                      IF {n, p} \in mesh
                      THEN RoutePeer(p, CONNECTED, NoTime)
                      ELSE NoPeer]]
    /\ app = [n \in Nodes |-> AppIdle]
    /\ env = [frames |-> 0, calls |-> 1]
    /\ codec = CodecIdle

\* The router of node n starts a discovery for a target that is not in its
\* table. `flight` holds the requests on their way, `handled` the number
\* of requests a node has taken, `requests` the number composed and
\* `replies` the number of replies returned.
AskStart(n, target) ==
    /\ ask.phase = "idle"
    /\ env.calls > 0
    /\ target # n
    /\ ~KnownTarget(St(n), target)
    /\ env' = [env EXCEPT !.calls = @ - 1]
    /\ LET made == compose_ask_around_message(St(n), Peer(target, NULL, NULL, NoTime),
                                              {}, NULL, FALSE)
       IN /\ next_message_id' = [next_message_id EXCEPT ![n] = made.st.counter]
          /\ ask' = [phase |-> "discovery", origin |-> n, target |-> target,
                     flight |-> CrumbSet(made.st.messages),
                     handled |-> 0, last |-> NoMessage, made |-> 0, answered |-> FALSE,
                     requests |-> Len(made.st.messages), replies |-> 0]
    /\ UNCHANGED <<now, nodeVars, codec, db, life, registry, links, routed, alloc>>

\* A peer outside the mesh starts a discovery for a node of the mesh and
\* asks node n.
AskFromOutside(n, target) ==
    /\ ask.phase = "idle"
    /\ env.calls > 0
    /\ env' = [env EXCEPT !.calls = @ - 1]
    /\ LET made == MessageInit(Stranger, n, NULL, n, CMD_ASK, KindOfReply(FALSE),
                               CMD_ASK, 0, DEFAULT_TIME_TO_LIVE,
                               [target |-> target, breadcrumbs |-> <<Stranger>>],
                               now, 0)
       IN ask' = [phase |-> "discovery", origin |-> Stranger, target |-> target,
                  flight |-> {made.msg},
                  handled |-> 0, last |-> NoMessage, made |-> 0, answered |-> FALSE,
                  requests |-> 1, replies |-> 0]
    /\ UNCHANGED <<now, next_message_id, nodeVars, codec, db, life, registry, links, routed, alloc>>

\* A request of the discovery reaches the node it is for (sent by the
\* sender of the node that composed it, decoded by the receiver) and
\* process_request of that node deals with it.
AskDeliver ==
    /\ ask.phase = "discovery"
    /\ ask.requests < MaxAskRequests
    /\ \E m \in ask.flight :
          LET n == m.to
              frame == TransportDeliver(encode(m, m.source), m.source)
              got == parse(frame, n, now, next_message_id[n])
              message == [got.msg EXCEPT !.handler = CMD_ASK]
              st == AskProcessRequest([St(n) EXCEPT !.counter = got.counter], message)
          IN /\ next_message_id' = [next_message_id EXCEPT ![n] = st.counter]
             /\ ask' = [ask EXCEPT
                           !.flight = (@ \ {m}) \cup CrumbSet(st.messages),
                           !.handled = @ + 1,
                           !.last = message,
                           !.made = Len(st.messages),
                           !.answered = st.result # <<>>,
                           !.requests = @ + Len(st.messages),
                           !.replies = IF st.result = <<>> THEN @ ELSE @ + 1]
    /\ UNCHANGED <<now, nodeVars, env, codec, db, life, registry, links, routed, alloc>>

NextMesh ==
    \/ \E n \in Nodes, target \in {"n3", Stranger} : AskStart(n, target)
    \/ \E n \in Nodes, target \in Nodes : AskFromOutside(n, target)
    \/ AskDeliver

\* Every request on its way is delivered.
SpecMesh == InitMesh /\ [][NextMesh]_vars /\ WF_vars(AskDeliver)

\* The breadcrumbs name no node twice.
CrumbsDistinct(breadcrumbs) ==
    \A i, j \in 1..Len(breadcrumbs) : breadcrumbs[i] = breadcrumbs[j] => i = j

\* A request on its way goes to a peer that is not on the path it has
\* come, and the path names no node twice.
OnFreshPath(m) ==
    /\ m.to \notin CrumbSet(m.payload.breadcrumbs)
    /\ CrumbsDistinct(m.payload.breadcrumbs)
    /\ m.payload.breadcrumbs[Len(m.payload.breadcrumbs)] = m.source

\* The peers the node that took the last request passes it on to.
PassedOnTo(message) ==
    { q \in Nodes : /\ peers[message.to][q] # NoPeer
                    /\ peers[message.to][q].conn_state = CONNECTED
                    /\ q # message.payload.target
                    /\ q # message.previous_hop
                    /\ q \notin CrumbSet(message.payload.breadcrumbs) }

\* The last request taken was dealt with as process_request has to: it
\* was dropped by the target itself, answered by a node that has the
\* target in its table, and passed on by any other.
DealtWith ==
    ask.last # NoMessage =>
        LET message == ask.last
            target == message.payload.target
        IN IF target = message.to
           THEN ask.made = 0 /\ ~ask.answered
           ELSE IF target \in Nodes /\ peers[message.to][target] # NoPeer
           THEN ask.made = 0 /\ ask.answered
           ELSE ask.made = Cardinality(PassedOnTo(message)) /\ ~ask.answered

\* The discovery is over: no request is on its way.
AskOver == ask.phase = "discovery" /\ ask.flight = {}

\* C38: a discovery ends. A request for the node itself is dropped, a
\* request for a target in the table is answered with one reply, and
\* every other request goes on only to CONNECTED peers that are neither on
\* its breadcrumbs nor the hop it came from; so no request reaches a node
\* that is on its path, the requests of a discovery stay below the number
\* at which the run gives up, and in the end none is on its way.
C38_DiscoveryEnds ==
    /\ [](ask.phase = "discovery" =>
             /\ \A m \in ask.flight : OnFreshPath(m)
             /\ DealtWith
             /\ ask.requests < MaxAskRequests
             /\ ask.replies <= ask.handled
             /\ ask.handled + Cardinality(ask.flight) = ask.requests)
    /\ [](ask.phase = "discovery" => <>AskOver)

\* A discovery for a stranger on the full mesh is over: each of the two
\* peers asked has passed the request on to the other, and that is all.
C38_Witness ==
    /\ AskOver
    /\ ask.target = Stranger
    /\ ask.requests = 4
    /\ ask.handled = 4
    /\ ask.replies = 0
    /\ Len(ask.last.payload.breadcrumbs) = 2

(***************************************************************************)
(* Threads of one process in get_next_message_id (message.py)              *)
(***************************************************************************)
\* Most ids a thread takes in a run.
MaxIds == 2

\* get_next_message_id, `next_message_id + 1`: the thread reads the global.
IdLoad(n, t) ==
    /\ alloc[n].threads[t].pc = "idle"
    /\ alloc[n].threads[t].calls < MaxIds
    /\ alloc' = [alloc EXCEPT ![n].threads[t] =
                    [pc |-> "loaded", reg |-> next_message_id[n], calls |-> @.calls + 1]]
    /\ UNCHANGED <<now, next_message_id, nodeVars, env, codec, db, life, registry, links, routed, ask>>

\* get_next_message_id, `next_message_id = ...`: the thread stores the sum.
IdStore(n, t) ==
    /\ alloc[n].threads[t].pc = "loaded"
    /\ next_message_id' = [next_message_id EXCEPT ![n] = get_next_message_id(alloc[n].threads[t].reg)]
    /\ alloc' = [alloc EXCEPT ![n].threads[t].pc = "stored"]
    /\ UNCHANGED <<now, nodeVars, env, codec, db, life, registry, links, routed, ask>>

\* get_next_message_id, `return next_message_id`: the thread reads the
\* global again, and Message.__init__ takes what it reads as message_id.
IdReturn(n, t) ==
    /\ alloc[n].threads[t].pc = "stored"
    /\ alloc' = [alloc EXCEPT ![n].threads[t].pc = "idle",
                              ![n].log = Append(@, [thread |-> t, id |-> next_message_id[n]])]
    /\ UNCHANGED <<now, next_message_id, nodeVars, env, codec, db, life, registry, links, routed, ask>>

NextIds ==
    \E t \in IdThreads : IdLoad("n1", t) \/ IdStore("n1", t) \/ IdReturn("n1", t)

SpecIds == InitOne /\ [][NextIds]_vars

\* C39: the message ids a node gives to new messages are strictly
\* increasing and none is given twice, also when several threads make
\* messages at once.
C39_IdsIncrease ==
    \A n \in Nodes :
        \A i, j \in 1..Len(alloc[n].log) :
            i < j => alloc[n].log[i].id < alloc[n].log[j].id

\* The ids are 1, 2, ... in the order they are given as long as one
\* thread alone has called get_next_message_id.
IdsIncreaseAlone ==
    \A n \in Nodes, t \in IdThreads :
        (\A u \in IdThreads \ {t} : alloc[n].threads[u].calls = 0) =>
            \A i \in 1..Len(alloc[n].log) : alloc[n].log[i].id = i

\* An id is given twice.
IdGivenTwice ==
    \E i, j \in 1..Len(alloc["n1"].log) :
        i < j /\ alloc["n1"].log[i].id = alloc["n1"].log[j].id

(***************************************************************************)
(* A message on its way hop by hop                                         *)
(***************************************************************************)
\* Most steps of the clock while a message is on its way.
MaxHopTicks == 3

\* Most hops a message takes.
MaxHops == 2

\* The time_to_live arguments the node that makes the message passes.
HopLifetimes == {ClockStep, DEFAULT_TIME_TO_LIVE, 2 * DEFAULT_TIME_TO_LIVE}

\* Node a makes a ROUTE message for `to`, to go by `nh`, with a lifetime of
\* its choice. `set` keeps the deadline it got, `hops` counts the
\* decodings.
HopCompose ==
    /\ codec.phase = "idle"
    /\ \E a \in Nodes, to \in Nodes, nh \in Nodes, life_time \in HopLifetimes :
          /\ to # a
          /\ nh # a
          /\ LET made == MessageInit(a, to, NULL, nh, CMD_APP, MESSAGE_TYPE_ROUTE, CMD_APP,
                                     1, life_time, <<>>, now, 0)
             IN codec' = [phase |-> "composed", a |-> a, m |-> made.msg,
                          frame |-> <<>>,
                          set |-> made.msg.time_to_live, hops |-> 0, decoded |-> NoTime]
    /\ UNCHANGED <<now, next_message_id, nodeVars, env, db, life, registry, links, routed, ask, alloc>>

\* The sender of the node that holds the message encodes it and sends the
\* frame, if the deadline of the message has not passed (send_message
\* asserts valid_for_send).
HopSend ==
    /\ codec.phase = "composed"
    /\ ~(codec.m.time_to_live < now)
    /\ codec' = [codec EXCEPT !.phase = "sent",
                              !.m = EncodeFill(codec.m, codec.a),
                              !.frame = encode(codec.m, codec.a)]
    /\ UNCHANGED <<now, next_message_id, nodeVars, env, db, life, registry, links, routed, ask, alloc>>

\* The receiver of the next hop decodes the frame.
HopReceive ==
    /\ codec.phase = "sent"
    /\ LET b == TransportTarget(codec.frame)
           got == parse(TransportDeliver(codec.frame, codec.a), b, now, next_message_id[b])
       IN /\ codec' = [codec EXCEPT !.phase = "parsed", !.a = b, !.m = got.msg,
                                    !.hops = @ + 1, !.decoded = now]
          /\ next_message_id' = [next_message_id EXCEPT ![b] = got.counter]
    /\ UNCHANGED <<now, nodeVars, env, db, life, registry, links, routed, ask, alloc>>

\* The message is for another node and its deadline has not come: the
\* router of the node that decoded it forwards it (process_routes).
HopForward ==
    /\ codec.phase = "parsed"
    /\ codec.hops < MaxHops
    /\ codec.m.to # codec.a
    /\ ~RouteExpired(codec.m, now)
    /\ codec' = [codec EXCEPT !.phase = "composed",
                              !.m = [@ EXCEPT !.previous_hop = codec.a]]
    /\ UNCHANGED <<now, next_message_id, nodeVars, env, db, life, registry, links, routed, ask, alloc>>

\* The message has arrived, or is given up.
HopEnd ==
    /\ codec.phase = "parsed"
    /\ codec' = CodecIdle
    /\ UNCHANGED <<now, next_message_id, nodeVars, env, db, life, registry, links, routed, ask, alloc>>

NextHops ==
    \/ HopCompose
    \/ HopSend
    \/ HopReceive
    \/ HopForward
    \/ HopEnd
    \/ Tick(MaxHopTicks * ClockStep)

SpecHops == InitCodec /\ [][NextHops]_vars

\* C40: the frame does not carry time_to_live, and every decoded message
\* has time_to_live = time of decoding + DEFAULT_TIME_TO_LIVE whatever
\* deadline the node that made it had set: each hop renews the deadline,
\* and the time a message spent on earlier hops does not make it expire.
C40_DeadlineRenewedAtEachHop ==
    /\ codec.phase = "sent" =>
          /\ Len(codec.frame) = 7
          /\ \A life_time \in HopLifetimes :
                encode([codec.m EXCEPT !.time_to_live = now + life_time], codec.a) = codec.frame
    /\ codec.phase = "parsed" =>
          /\ codec.m.time_to_live = codec.decoded + DEFAULT_TIME_TO_LIVE
          /\ codec.m.time_to_live - now >= DEFAULT_TIME_TO_LIVE - MaxHopTicks * ClockStep
          /\ ~RouteExpired(codec.m, now)
    /\ (codec.phase = "composed" /\ codec.hops > 0) =>
          codec.m.time_to_live = codec.decoded + DEFAULT_TIME_TO_LIVE

\* A message made with a lifetime of one step of the clock is decoded at
\* its second hop after the deadline its maker set, with a whole
\* DEFAULT_TIME_TO_LIVE to go.
C40_Witness ==
    /\ codec.phase = "parsed"
    /\ codec.hops = 2
    /\ codec.set < now
    /\ codec.decoded = now
    /\ codec.m.time_to_live = now + DEFAULT_TIME_TO_LIVE

====
